---------------------------- MODULE Spec2Model ----------------------------
(***************************************************************************)
(* Model of the session store of plan-and-act-mcp: RedisSessionStore       *)
(* (create / get / update / delete / exists over a Redis keyspace with     *)
(* native TTL), the per-session mutex table (utils/locks) and the todo     *)
(* tools that run their read-modify-write bodies under those mutexes.      *)
(*                                                                         *)
(* One step of the model is the code a request runs between two awaits:    *)
(* it resumes from the previous backend reply and issues the next backend  *)
(* command, which Redis executes in issue order on the single connection.  *)
(***************************************************************************)
EXTENDS Integers, Sequences, FiniteSets, TLC

(***************************************************************************)
(* Bounds of the model                                                     *)
(***************************************************************************)
NumProcs == 2          \* concurrently handled requests
NumLockProcs == 3      \* concurrent requests in the specifications of the mutex
MaxTicks == 2          \* how often the clock advances
MaxTodos == 2          \* longest todos sequence a tool builds
MaxMutex == 3          \* Mutex objects ever allocated
MaxCollisions == 1     \* colliding candidates in a row that Spec explores
TickSeconds == 1800    \* seconds the clock advances per Tick

(***************************************************************************)
(* Program constants and configuration                                     *)
(***************************************************************************)
MaxAttempts == 10      \* generateUniqueId: const maxAttempts = 10
TtlHours == 1          \* the store's ttlHours configuration

Procs == 1..NumProcs
LockProcs == 1..NumLockProcs
AllProcs == Procs \cup LockProcs
Servers == {1, 2}
SessionIds == {"s1", "s2"}
TodoIds == {"t1", "t2"}
Users == {"u1", "u2"}
None == "<undefined>"
Callers == Users \cup {None}
\* Key prefixes, as sequences of characters: the one the store is configured
\* with, the namespace of another application, a configured prefix that
\* holds a character class, and a namespace whose keys that class matches
KeyPrefix == <<"s", ":">>
OtherPrefix == <<"o", ":">>
ClassPrefix == <<"s", "[", "1", "2", "]", ":">>
DigitPrefix == <<"s", "1", ":">>
Prefixes == {KeyPrefix, OtherPrefix, ClassPrefix, DigitPrefix}
\* A key is a prefix followed by a session id
Keys == Prefixes \X SessionIds

VARIABLES
  redis,         \* the Redis keyspace: key -> entry (value and remaining TTL)
  now,           \* the clock, in seconds
  ttlSeconds,    \* RedisSessionStore.ttlSeconds
  keyPrefix,     \* RedisSessionStore.keyPrefix
  conn,          \* the storage's connection: isConnected and the client's status
  currentRequest, \* the HTTP request stored for the tool handlers, 0 for null
  http,          \* per request: where handleRequest stands, the X-User-ID header
  proc,          \* per request: the operation in progress and its locals
  serverOf,      \* the server process each request runs in
  sessionLocks,  \* per server process: the sessionLocks map, id -> Mutex
  mutexes,       \* the Mutex objects: holder and FIFO queue of waiters
  nextMutex,     \* next Mutex object to allocate
  ret            \* what the last step returned to its caller, if it ended a call

httpVars == <<currentRequest, http>>
storeVars == <<redis, now, ttlSeconds, keyPrefix, conn, httpVars>>
lockVars == <<sessionLocks, mutexes, nextMutex>>
vars == <<redis, now, ttlSeconds, keyPrefix, conn, currentRequest, http, proc, serverOf, sessionLocks, mutexes, nextMutex,
         ret>>

(***************************************************************************)
(* The storage's connection.  The Redis store keeps isConnected, set by    *)
(* the client's connect and close events; the client goes from wait        *)
(* (lazyConnect) to connecting and ready, and after a close either         *)
(* reconnects (retryStrategy) or ends.  last is the latest of the two      *)
(* events, quitting says that quit has been sent.                          *)
(***************************************************************************)
\* retryStrategy gives up when times > 3
MaxRetries == 3

\* A new RedisSessionStore: isConnected = false, the client waits
Unconnected ==
  [type |-> "redis", isConnected |-> FALSE, status |-> "wait", last |-> "none",
   retries |-> 0, quitting |-> FALSE]

\* The Redis store after main's storage.connect()
Connected ==
  [type |-> "redis", isConnected |-> TRUE, status |-> "ready", last |-> "connect",
   retries |-> 0, quitting |-> FALSE]

\* The in-memory storage has no connection
InMemory ==
  [type |-> "memory", isConnected |-> FALSE, status |-> "none", last |-> "none",
   retries |-> 0, quitting |-> FALSE]

(***************************************************************************)
(* The HTTP requests.  handleRequest stores its request in the module's    *)
(* currentRequest, from where the tool handlers take the caller.           *)
(***************************************************************************)
\* No handleRequest is running for the request
HttpIdle == [pc |-> "none", header |-> None]

\* let currentRequest = null, and no request has arrived
NoRequests ==
  /\ currentRequest = 0
  /\ http = [p \in AllProcs |-> HttpIdle]

(***************************************************************************)
(* Dates and their ISO form.  A Date is a count of milliseconds;           *)
(* toISOString writes it as calendar fields (here: whole seconds and the   *)
(* millisecond part), new Date(iso) reads the fields back.                 *)
(***************************************************************************)
NewDate == now * 1000

ToISOString(d) == [sec |-> d \div 1000, ms |-> d % 1000]

\* Variant: new Date(iso) reads whole seconds only
ParseDate_WholeSeconds(iso) == iso.sec * 1000

ParseDate(iso) == iso.sec * 1000 + iso.ms

(***************************************************************************)
(* serializeSession / deserializeSession.  JSON.stringify drops a userId   *)
(* that is undefined; JSON.parse of a record without the key reads it back *)
(* as undefined.                                                           *)
(***************************************************************************)
SerializeTodo(t) ==
  [id |-> t.id, title |-> t.title, description |-> t.description,
   tags |-> t.tags, status |-> t.status, createdAt |-> ToISOString(t.createdAt)]

DeserializeTodo(t) ==
  [id |-> t.id, title |-> t.title, description |-> t.description,
   tags |-> t.tags, status |-> t.status, createdAt |-> ParseDate(t.createdAt)]

SerializeSession(s) ==
  LET base == [id |-> s.id, scratchpad |-> s.scratchpad,
               todos |-> [i \in 1..Len(s.todos) |-> SerializeTodo(s.todos[i])],
               createdAt |-> ToISOString(s.createdAt),
               lastModified |-> ToISOString(s.lastModified)]
  IN IF s.userId = None THEN base ELSE base @@ [userId |-> s.userId]

\* Variant: the owner is not read back from the stored record
DeserializeSession_OwnerLost(d) ==
  [id |-> d.id,
   userId |-> None,
   scratchpad |-> d.scratchpad,
   todos |-> [i \in 1..Len(d.todos) |-> DeserializeTodo(d.todos[i])],
   createdAt |-> ParseDate(d.createdAt),
   lastModified |-> ParseDate(d.lastModified)]

DeserializeSession(d) ==
  [id |-> d.id,
   userId |-> IF "userId" \in DOMAIN d THEN d.userId ELSE None,
   scratchpad |-> d.scratchpad,
   todos |-> [i \in 1..Len(d.todos) |-> DeserializeTodo(d.todos[i])],
   createdAt |-> ParseDate(d.createdAt),
   lastModified |-> ParseDate(d.lastModified)]

(***************************************************************************)
(* The Redis commands the store issues                                     *)
(***************************************************************************)
Absent == [present |-> FALSE]

\* A key of another application: not a session record, no expiry
Foreign == [present |-> TRUE, value |-> [foreign |-> TRUE], ttl |-> -1]

\* Variant: the key is built with a fixed prefix, not the configured one
GetKey_FixedPrefix(sessionId) == <<KeyPrefix, sessionId>>

\* `${this.keyPrefix}${sessionId}`
GetKey(sessionId) == <<keyPrefix, sessionId>>

RedisGet(key) ==
  IF redis[key].present THEN [some |-> TRUE, value |-> redis[key].value]
                        ELSE [some |-> FALSE]

RedisExists(key) == IF redis[key].present THEN 1 ELSE 0

RedisTtl(key) == IF redis[key].present THEN redis[key].ttl ELSE -2

RedisSetex(key, ttl, value) ==
  [redis EXCEPT ![key] = [present |-> TRUE, value |-> value, ttl |-> ttl]]

\* SETEX with an expiry that is not positive is answered with an error
\* (ERR invalid expire time) and stores nothing
SetexRejected(ttl) == ttl <= 0

RedisDel(keys) == [k \in Keys |-> IF k \in keys THEN Absent ELSE redis[k]]

\* The characters of a key
KeyString(k) == k[1] \o <<k[2]>>

\* Redis matches the pattern of KEYS as a glob: * stands for any run of
\* characters, ? for any one character, [...] for one character of the
\* class, everything else for itself.
RECURSIVE GlobMatch(_, _)
GlobMatch(pattern, string) ==
  IF pattern = <<>> THEN string = <<>>
  ELSE IF Head(pattern) = "*"
    THEN \E i \in 0..Len(string) :
           GlobMatch(Tail(pattern), SubSeq(string, i + 1, Len(string)))
  ELSE IF string = <<>> THEN FALSE
  ELSE IF Head(pattern) = "?" THEN GlobMatch(Tail(pattern), Tail(string))
  ELSE IF Head(pattern) = "[" /\ \E j \in 2..Len(pattern) : pattern[j] = "]"
    THEN LET close == CHOOSE j \in 2..Len(pattern) :
                        /\ pattern[j] = "]"
                        /\ \A i \in 2..(j - 1) : pattern[i] # "]"
         IN /\ \E i \in 2..(close - 1) : pattern[i] = Head(string)
            /\ GlobMatch(SubSeq(pattern, close + 1, Len(pattern)), Tail(string))
  ELSE Head(pattern) = Head(string) /\ GlobMatch(Tail(pattern), Tail(string))

RedisKeys(pattern) == {k \in Keys : redis[k].present /\ GlobMatch(pattern, KeyString(k))}

\* `${this.keyPrefix}*`
KeysPattern == keyPrefix \o <<"*">>

(***************************************************************************)
(* validateUserId: TRUE when the call is rejected with UserIdMismatchError *)
(***************************************************************************)
\* Variant: a call that carries no user id is let through
ValidateUserIdThrows_AbsentPasses(session, userId) ==
  session.userId # None /\ userId # None /\ session.userId # userId

ValidateUserIdThrows(session, userId) ==
  session.userId # None /\ (userId = None \/ session.userId # userId)


(***************************************************************************)
(* Requests.  proc[p] is a record whose fields depend on pc; op, pc, sid,  *)
(* uid and arg (the call and its arguments) are always there.  A call that *)
(* ends stores in ret what it returned or raised; every other step clears  *)
(* ret.                                                                    *)
(***************************************************************************)
Idle == [op |-> "none", pc |-> "idle", sid |-> None, uid |-> None, arg |-> None]

Ready(p) == proc[p].pc = "idle"

NoRet == [op |-> "none"]

LockedOps == {"addTodo", "updateTodo", "deleteTodo"}

Call(op, sid, uid, arg) == [op |-> op, sid |-> sid, uid |-> uid, arg |-> arg]

\* rec with the fields of upd set
With(rec, upd) == upd @@ rec

Returned(p, call, result) ==
  [p |-> p, op |-> call.op, sid |-> call.sid, uid |-> call.uid, arg |-> call.arg,
   result |-> result]

Throw(err) == [kind |-> "throw", err |-> err]

ErrorPayload(code) == [kind |-> "error", code |-> code]

Ok == [kind |-> "ok"]

(***************************************************************************)
(* sessionLocks and Mutex (async-mutex): acquire takes a free mutex at     *)
(* once and queues behind a held one; release hands it to the first        *)
(* waiter.                                                                 *)
(***************************************************************************)
FreeMutex == [holder |-> 0, queue |-> <<>>]

Acquire(m, p) ==
  IF m.holder = 0 THEN [m EXCEPT !.holder = p]
                  ELSE [m EXCEPT !.queue = Append(@, p)]

\* Variant: release hands the Mutex to the waiter that came last
Release_LastWaiter(m) ==
  IF m.queue = <<>> THEN [m EXCEPT !.holder = 0]
                    ELSE [holder |-> m.queue[Len(m.queue)],
                          queue |-> SubSeq(m.queue, 1, Len(m.queue) - 1)]

\* Variant: release frees the Mutex without waking a waiter
Release_NoHandover(m) == [m EXCEPT !.holder = 0]

Release(m) ==
  IF m.queue = <<>> THEN [m EXCEPT !.holder = 0]
                    ELSE [holder |-> Head(m.queue), queue |-> Tail(m.queue)]

\* Variant: one Mutex serves every session id
GetSessionLock_Global(server, sessionId) == 1

\* Variant: every call allocates a new Mutex instead of reusing the table's
GetSessionLock_AlwaysNew(server, sessionId) == nextMutex

\* getSessionLock: the Mutex the table holds for the id, a new one if none
GetSessionLock(server, sessionId) ==
  IF sessionLocks[server][sessionId] # 0 THEN sessionLocks[server][sessionId]
                                         ELSE nextMutex

RemoveSessionLock(server, sessionId) ==
  /\ sessionLocks[server][sessionId] # 0
  /\ sessionLocks' = [sessionLocks EXCEPT ![server][sessionId] = 0]
  /\ ret' = NoRet
  /\ UNCHANGED <<storeVars, proc, serverOf, mutexes, nextMutex>>

(***************************************************************************)
(* What the catch block of each operation makes of an exception the store  *)
(* raised: the todo tools encode some as error payloads, the rest          *)
(* propagates.                                                             *)
(***************************************************************************)
\* Variant: updateTodo and deleteTodo report every exception of the store as
\* a missing session
Caught_AllNotFound(op, err) ==
  IF op \in {"updateTodo", "deleteTodo"} THEN ErrorPayload("SESSION_NOT_FOUND")
  ELSE Throw(err)

Caught(op, err) ==
  CASE op \in {"addTodo", "listTodos"} ->
         IF err = "UserIdMismatchError"
           THEN ErrorPayload("USER_ID_MISMATCH") ELSE Throw(err)
    [] op \in {"updateTodo", "deleteTodo"} ->
         IF err = "SessionNotFoundError" THEN ErrorPayload("SESSION_NOT_FOUND")
         ELSE IF err = "UserIdMismatchError" THEN ErrorPayload("USER_ID_MISMATCH")
         ELSE Throw(err)
    [] OTHER -> Throw(err)

\* Variant: a call that ends by raising leaves the Mutex held
Complete_HeldOnThrow(p, rec, result) ==
  /\ proc' = [proc EXCEPT ![p] = Idle]
  /\ ret' = Returned(p, rec, result)
  /\ mutexes' = IF rec.op \in LockedOps /\ result.kind # "throw"
                  THEN [mutexes EXCEPT ![rec.lock] = Release(@)]
                  ELSE mutexes
  /\ UNCHANGED <<sessionLocks, nextMutex>>

(***************************************************************************)
(* The call rec of p ends with result: a lock-protected tool leaves        *)
(* runExclusive, which releases the Mutex it acquired.                     *)
(***************************************************************************)
Complete(p, rec, result) ==
  /\ proc' = [proc EXCEPT ![p] = Idle]
  /\ ret' = Returned(p, rec, result)
  /\ mutexes' = IF rec.op \in LockedOps
                  THEN [mutexes EXCEPT ![rec.lock] = Release(@)]
                  ELSE mutexes
  /\ UNCHANGED <<sessionLocks, nextMutex>>

Raise(p, rec, err) == Complete(p, rec, Caught(rec.op, err))

Continue(p, rec) ==
  /\ proc' = [proc EXCEPT ![p] = rec]
  /\ ret' = NoRet
  /\ UNCHANGED lockVars

(***************************************************************************)
(* The backend command a request awaits is rejected (connection lost,      *)
(* command timeout): the exception reaches the caller of the store, and    *)
(* in a todo tool its catch block, with nothing written.                   *)
(***************************************************************************)
BackendFail(p) ==
  /\ \/ proc[p].pc \in {"gen", "u_got", "u_ttl", "d_got", "t_got"}
     \/ proc[p].pc = "t_wait" /\ mutexes[proc[p].lock].holder = p
  /\ Raise(p, proc[p], "Error")
  /\ UNCHANGED <<storeVars, serverOf>>

\* The client.get that get, update, delete and listTodos begin with is
\* rejected
GetFail(p, op, sessionId, arg, userId) ==
  /\ Ready(p)
  /\ Raise(p, Call(op, sessionId, userId, arg), "Error")
  /\ UNCHANGED <<storeVars, serverOf>>

(***************************************************************************)
(* create(userId)                                                          *)
(***************************************************************************)
\* Variant: the loop gives up one attempt later
AttemptsExhausted_OneLater(attempts) == attempts > MaxAttempts + 1

AttemptsExhausted(attempts) == attempts > MaxAttempts

\* One iteration of generateUniqueId's do-while: draw a candidate, count the
\* attempt, give up past maxAttempts, else ask Redis whether it exists.
GenerateIteration(p, call, attempts, id) ==
  IF AttemptsExhausted(attempts)
    THEN Complete(p, call, Throw("Failed to generate unique session ID after maximum attempts"))
    ELSE Continue(p, With(call, [pc |-> "gen", id |-> id, attempts |-> attempts,
                                 found |-> (RedisExists(GetKey(id)) = 1)]))

CreateStart(p, userId, id) ==
  /\ Ready(p)
  /\ GenerateIteration(p, Call("create", None, userId, None), 1, id)
  /\ UNCHANGED <<storeVars, serverOf>>

\* The candidate exists: the loop runs again (cap bounds the collisions in a
\* row that a specification explores).
CreateRetry(p, id, cap) ==
  /\ proc[p].pc = "gen"
  /\ proc[p].found
  /\ proc[p].attempts <= cap
  /\ GenerateIteration(p, Call("create", None, proc[p].uid, None), proc[p].attempts + 1, id)
  /\ UNCHANGED <<storeVars, serverOf>>

NewSession(id, userId) ==
  [id |-> id, userId |-> userId, scratchpad |-> "", todos |-> <<>>,
   createdAt |-> NewDate, lastModified |-> NewDate]

CreateSetex(p) ==
  /\ proc[p].pc = "gen"
  /\ ~proc[p].found
  /\ LET session == NewSession(proc[p].id, proc[p].uid)
     IN IF SetexRejected(ttlSeconds)
          THEN /\ redis' = redis
               /\ Raise(p, proc[p], "Error")
          ELSE /\ redis' = RedisSetex(GetKey(session.id), ttlSeconds, SerializeSession(session))
               /\ Complete(p, proc[p], [kind |-> "session", val |-> session])
  /\ UNCHANGED <<now, ttlSeconds, keyPrefix, conn, httpVars, serverOf>>

(***************************************************************************)
(* get(sessionId, userId): what the store's get makes of the reply of      *)
(* client.get                                                              *)
(***************************************************************************)
\* Variant: get raises SessionNotFoundError for a missing key
GetResult_MissingFails(data, userId) ==
  IF ~data.some THEN Throw("SessionNotFoundError")
  ELSE LET session == DeserializeSession(data.value)
       IN IF ValidateUserIdThrows(session, userId)
            THEN Throw("UserIdMismatchError")
            ELSE [kind |-> "session", val |-> session]

\* Variant: get hands the record out without validating the caller
GetResult_Unchecked(data, userId) ==
  IF ~data.some THEN [kind |-> "null"]
  ELSE [kind |-> "session", val |-> DeserializeSession(data.value)]

GetResult(data, userId) ==
  IF ~data.some THEN [kind |-> "null"]
  ELSE LET session == DeserializeSession(data.value)
       IN IF ValidateUserIdThrows(session, userId)
            THEN Throw("UserIdMismatchError")
            ELSE [kind |-> "session", val |-> session]

StoreGet(sessionId, userId) == GetResult(RedisGet(GetKey(sessionId)), userId)

Get(p, sessionId, userId) ==
  /\ Ready(p)
  /\ Complete(p, Call("get", sessionId, userId, None), StoreGet(sessionId, userId))
  /\ UNCHANGED <<storeVars, serverOf>>

(***************************************************************************)
(* update(sessionId, updates, userId).  The outcome of its get is fixed    *)
(* when client.get is issued: a call that finds nothing or is refused ends *)
(* there; otherwise the record read is kept, merged with the updates.      *)
(***************************************************************************)
\* Variant: the merge keeps the todos only when the field set carries them
Spread_DropsTodos(session, updates) ==
  [k \in DOMAIN session |->
     IF k \in DOMAIN updates THEN updates[k]
     ELSE IF k = "todos" THEN <<>> ELSE session[k]]

\* { ...session, ...updates }
Spread(session, updates) ==
  [k \in DOMAIN session |-> IF k \in DOMAIN updates THEN updates[k] ELSE session[k]]

StoreUpdate(p, rec, updates) ==
  LET got == StoreGet(rec.sid, rec.uid)
  IN CASE got.kind = "throw" -> Raise(p, rec, got.err)
       [] got.kind = "null" -> Raise(p, rec, "SessionNotFoundError")
       [] OTHER -> Continue(p, With(rec, [pc |-> "u_got", merged |-> Spread(got.val, updates)]))

UpdateStart(p, sessionId, updates, userId) ==
  /\ Ready(p)
  /\ StoreUpdate(p, Call("update", sessionId, userId, updates), updates)
  /\ UNCHANGED <<storeVars, serverOf>>

\* The reply of client.get has arrived: lastModified is stamped, the record
\* serialized, and the remaining TTL asked for.
UpdateTtl(p) ==
  /\ proc[p].pc = "u_got"
  /\ Continue(p, With([k \in DOMAIN proc[p] \ {"merged"} |-> proc[p][k]],
                      [pc |-> "u_ttl",
                       data |-> SerializeSession([proc[p].merged EXCEPT !.lastModified = NewDate]),
                       ttl |-> RedisTtl(GetKey(proc[p].sid))]))
  /\ UNCHANGED <<storeVars, serverOf>>

NewTtl(ttl) == IF ttl > 0 THEN ttl ELSE ttlSeconds

UpdateSetex(p) ==
  /\ proc[p].pc = "u_ttl"
  /\ IF SetexRejected(NewTtl(proc[p].ttl))
       THEN /\ redis' = redis
            /\ Raise(p, proc[p], "Error")
       ELSE /\ redis' = RedisSetex(GetKey(proc[p].sid), NewTtl(proc[p].ttl), proc[p].data)
            /\ Complete(p, proc[p], IF proc[p].op = "update" THEN Ok ELSE proc[p].reply)
  /\ UNCHANGED <<now, ttlSeconds, keyPrefix, conn, httpVars, serverOf>>

(***************************************************************************)
(* delete(sessionId, userId)                                               *)
(***************************************************************************)
DeleteStart(p, sessionId, userId) ==
  /\ Ready(p)
  /\ LET rec == Call("delete", sessionId, userId, None)
         got == StoreGet(sessionId, userId)
     IN CASE got.kind = "throw" -> Raise(p, rec, got.err)
          [] got.kind = "null" -> Raise(p, rec, "SessionNotFoundError")
          [] OTHER -> Continue(p, With(rec, [pc |-> "d_got"]))
  /\ UNCHANGED <<storeVars, serverOf>>

DeleteDel(p) ==
  /\ proc[p].pc = "d_got"
  /\ redis' = RedisDel({GetKey(proc[p].sid)})
  /\ Complete(p, proc[p], Ok)
  /\ UNCHANGED <<now, ttlSeconds, keyPrefix, conn, httpVars, serverOf>>

(***************************************************************************)
(* exists(sessionId)                                                       *)
(***************************************************************************)
\* Variant: exists answers by what a get without a caller identity finds
Exists_AsAnonymousGet(p, sessionId) ==
  /\ Ready(p)
  /\ Complete(p, Call("exists", sessionId, None, None),
              [kind |-> "bool", val |-> (StoreGet(sessionId, None).kind = "session")])
  /\ UNCHANGED <<storeVars, serverOf>>

Exists(p, sessionId) ==
  /\ Ready(p)
  /\ Complete(p, Call("exists", sessionId, None, None),
              [kind |-> "bool", val |-> (RedisExists(GetKey(sessionId)) = 1)])
  /\ UNCHANGED <<storeVars, serverOf>>

(***************************************************************************)
(* The caller changes a session it got from create or get.  What Redis     *)
(* holds is the string JSON.stringify made, and get builds a new object    *)
(* from the string: no key's value is the object the caller holds.         *)
(***************************************************************************)
\* Variant: the store keeps the returned object as the session's value
Aliases_LiveReference(session) == {GetKey(session.id)}

\* The keys whose stored value is the object session
Aliases(session) == {}

\* session.scratchpad = ...; session.todos.push(todo)
CallerMutates(p, todo) ==
  /\ Ready(p)
  /\ ret.op \in {"create", "get"}
  /\ ret.p = p
  /\ ret.result.kind = "session"
  /\ Len(ret.result.val.todos) < MaxTodos
  /\ LET session == ret.result.val
         mutated == [session EXCEPT !.scratchpad = "changed", !.todos = Append(@, todo)]
     IN /\ redis' = [k \in Keys |->
                       IF k \in Aliases(session)
                         THEN [redis[k] EXCEPT !.value = SerializeSession(mutated)]
                         ELSE redis[k]]
        /\ Complete(p, Call("mutate", session.id, session.userId, session),
                    [kind |-> "session", val |-> mutated])
  /\ UNCHANGED <<now, ttlSeconds, keyPrefix, conn, httpVars, serverOf>>

(***************************************************************************)
(* count, cleanup and clear                                                *)
(***************************************************************************)
\* keys(pattern).length
Count(p) ==
  /\ Ready(p)
  /\ Complete(p, Call("count", None, None, None),
              [kind |-> "number", val |-> Cardinality(RedisKeys(KeysPattern))])
  /\ UNCHANGED <<storeVars, serverOf>>

\* Variant: cleanup deletes the store's keys and reports how many
Cleanup_Sweeps(p) ==
  /\ Ready(p)
  /\ redis' = RedisDel(RedisKeys(KeysPattern))
  /\ Complete(p, Call("cleanup", None, None, None),
              [kind |-> "number", val |-> Cardinality(RedisKeys(KeysPattern))])
  /\ UNCHANGED <<now, ttlSeconds, keyPrefix, conn, httpVars, serverOf>>

\* cleanup: return 0
Cleanup(p) ==
  /\ Ready(p)
  /\ Complete(p, Call("cleanup", None, None, None), [kind |-> "number", val |-> 0])
  /\ UNCHANGED <<storeVars, serverOf>>

\* clear: const keys = await this.client.keys(pattern)
ClearStart(p) ==
  /\ Ready(p)
  /\ Continue(p, With(Call("clear", None, None, None),
                      [pc |-> "c_keys", keys |-> RedisKeys(KeysPattern)]))
  /\ UNCHANGED <<storeVars, serverOf>>

\* clear: if (keys.length > 0) await this.client.del(...keys)
ClearDel(p) ==
  /\ proc[p].pc = "c_keys"
  /\ redis' = IF proc[p].keys # {} THEN RedisDel(proc[p].keys) ELSE redis
  /\ Complete(p, proc[p], Ok)
  /\ UNCHANGED <<now, ttlSeconds, keyPrefix, conn, httpVars, serverOf>>

(***************************************************************************)
(* Time passes: Redis counts every key's TTL down and drops expired keys.  *)
(* TTL reports the remaining time in whole seconds, so a key in its last   *)
(* fraction of a second is still there and reports 0: the clock may stop   *)
(* that fraction short of the end of the tick (short).                     *)
(***************************************************************************)
Tick(maxTicks) ==
  /\ now < maxTicks * TickSeconds
  /\ now' = now + TickSeconds
  /\ \E short \in BOOLEAN :
       redis' = [k \in Keys |->
         IF redis[k].present /\ redis[k].ttl >= 0
           THEN IF redis[k].ttl - TickSeconds > 0
                  THEN [redis[k] EXCEPT !.ttl = @ - TickSeconds]
                ELSE IF redis[k].ttl = TickSeconds /\ short
                  THEN [redis[k] EXCEPT !.ttl = 0]
                ELSE Absent
           ELSE redis[k]]
  /\ ret' = NoRet
  /\ UNCHANGED <<ttlSeconds, keyPrefix, conn, httpVars, proc, serverOf, lockVars>>

(***************************************************************************)
(* The todo tools.  addTodo, updateTodo and deleteTodo take the session's  *)
(* Mutex and run their body in runExclusive; listTodos takes no lock.      *)
(***************************************************************************)
\* const lock = getSessionLock(id); lock.runExclusive(...): the request
\* holds the mutex at once if it is free and waits in its queue otherwise.
ToolLock(p, rec) ==
  LET server == serverOf[p]
      m == GetSessionLock(server, rec.sid)
  IN /\ Ready(p)
     /\ m <= MaxMutex
     /\ sessionLocks' = [sessionLocks EXCEPT ![server][rec.sid] = m]
     /\ nextMutex' = IF m = nextMutex THEN nextMutex + 1 ELSE nextMutex
     /\ mutexes' = [mutexes EXCEPT ![m] = Acquire(@, p)]
     /\ proc' = [proc EXCEPT ![p] = With(rec, [pc |-> "t_wait", lock |-> m])]
     /\ ret' = NoRet
     /\ UNCHANGED <<redis, now, ttlSeconds, keyPrefix, conn, serverOf>>

AddTodo(p, sessionId, input, userId) ==
  /\ ToolLock(p, Call("addTodo", sessionId, userId, input))
  /\ UNCHANGED httpVars

UpdateTodo(p, sessionId, todoId, status, userId) ==
  /\ ToolLock(p, Call("updateTodo", sessionId, userId, [todo_id |-> todoId, status |-> status]))
  /\ UNCHANGED httpVars

DeleteTodo(p, sessionId, todoId, userId) ==
  /\ ToolLock(p, Call("deleteTodo", sessionId, userId, [todo_id |-> todoId]))
  /\ UNCHANGED httpVars

\* The body starts once the request holds the mutex: store.get
ToolGet(p) ==
  /\ proc[p].pc = "t_wait"
  /\ mutexes[proc[p].lock].holder = p
  /\ LET got == StoreGet(proc[p].sid, proc[p].uid)
     IN CASE got.kind = "throw" -> Raise(p, proc[p], got.err)
          [] got.kind = "null" -> Complete(p, proc[p], ErrorPayload("SESSION_NOT_FOUND"))
          [] OTHER -> Continue(p, With(proc[p], [pc |-> "t_got", todos |-> got.val.todos]))
  /\ UNCHANGED <<storeVars, serverOf>>

\* session.todos.findIndex((t) => t.id === todo_id): 0 stands for -1
FindIndex(todos, todoId) ==
  IF \E i \in 1..Len(todos) : todos[i].id = todoId
    THEN CHOOSE i \in 1..Len(todos) :
           /\ todos[i].id = todoId
           /\ \A j \in 1..(i - 1) : todos[j].id # todoId
    ELSE 0

\* Variant: filter returns the kept todos last first
RECURSIVE FilterTodos_Reversed(_, _)
FilterTodos_Reversed(todos, keep) ==
  IF todos = <<>> THEN <<>>
  ELSE IF Head(todos) \in keep
         THEN FilterTodos_Reversed(Tail(todos), keep) \o <<Head(todos)>>
         ELSE FilterTodos_Reversed(Tail(todos), keep)

\* todos.filter((t) => keep(t))
RECURSIVE FilterTodos(_, _)
FilterTodos(todos, keep) ==
  IF todos = <<>> THEN <<>>
  ELSE IF Head(todos) \in keep
         THEN <<Head(todos)>> \o FilterTodos(Tail(todos), keep)
         ELSE FilterTodos(Tail(todos), keep)

\* The body goes on to store.update with the new todos and, when that
\* succeeds, returns reply.
ToolUpdate(p, updatedTodos, reply) ==
  StoreUpdate(p, With([k \in DOMAIN proc[p] \ {"todos"} |-> proc[p][k]], [reply |-> reply]),
              [todos |-> updatedTodos])

\* input.description ?? "", input.tags ?? []
OrElse(value, default) == IF value = None THEN default ELSE value

\* The todo addTodo builds from its input
NewTodo(todoId, input) ==
  [id |-> todoId, title |-> input.title,
   description |-> OrElse(input.description, ""), tags |-> OrElse(input.tags, <<>>),
   status |-> "pending", createdAt |-> NewDate]

\* Variant: the new todo is put in front of the stored ones
AddBody_Prepends(p, todoId) ==
  /\ proc[p].pc = "t_got"
  /\ proc[p].op = "addTodo"
  /\ Len(proc[p].todos) < MaxTodos
  /\ LET todo == NewTodo(todoId, proc[p].arg)
     IN ToolUpdate(p, <<todo>> \o proc[p].todos, [kind |-> "todo", val |-> todo])
  /\ UNCHANGED <<storeVars, serverOf>>

AddBody(p, todoId) ==
  /\ proc[p].pc = "t_got"
  /\ proc[p].op = "addTodo"
  /\ Len(proc[p].todos) < MaxTodos
  /\ LET todo == NewTodo(todoId, proc[p].arg)
     IN ToolUpdate(p, Append(proc[p].todos, todo), [kind |-> "todo", val |-> todo])
  /\ UNCHANGED <<storeVars, serverOf>>

\* Variant: the updated todo is stamped with the time of the update
UpdateBody_Restamps(p) ==
  /\ proc[p].pc = "t_got"
  /\ proc[p].op = "updateTodo"
  /\ LET todos == proc[p].todos
         todoIndex == FindIndex(todos, proc[p].arg.todo_id)
     IN IF todoIndex = 0
          THEN Complete(p, proc[p], ErrorPayload("TODO_NOT_FOUND"))
          ELSE LET updatedTodo == [todos[todoIndex] EXCEPT !.status = proc[p].arg.status,
                                                           !.createdAt = NewDate]
               IN ToolUpdate(p, [todos EXCEPT ![todoIndex] = updatedTodo],
                             [kind |-> "todo", val |-> updatedTodo])
  /\ UNCHANGED <<storeVars, serverOf>>

UpdateBody(p) ==
  /\ proc[p].pc = "t_got"
  /\ proc[p].op = "updateTodo"
  /\ LET todos == proc[p].todos
         todoIndex == FindIndex(todos, proc[p].arg.todo_id)
     IN IF todoIndex = 0
          THEN Complete(p, proc[p], ErrorPayload("TODO_NOT_FOUND"))
          ELSE LET updatedTodo == [todos[todoIndex] EXCEPT !.status = proc[p].arg.status]
               IN ToolUpdate(p, [todos EXCEPT ![todoIndex] = updatedTodo],
                             [kind |-> "todo", val |-> updatedTodo])
  /\ UNCHANGED <<storeVars, serverOf>>

DeleteBody(p) ==
  /\ proc[p].pc = "t_got"
  /\ proc[p].op = "deleteTodo"
  /\ LET todos == proc[p].todos
         todoIndex == FindIndex(todos, proc[p].arg.todo_id)
     IN IF todoIndex = 0
          THEN Complete(p, proc[p], ErrorPayload("TODO_NOT_FOUND"))
          ELSE ToolUpdate(p,
                 FilterTodos(todos, {t \in {todos[i] : i \in 1..Len(todos)} :
                                       t.id # proc[p].arg.todo_id}),
                 [kind |-> "success", deleted_id |-> todos[todoIndex].id,
                  deleted_title |-> todos[todoIndex].title])
  /\ UNCHANGED <<storeVars, serverOf>>

ListTodos(p, sessionId, filter, userId) ==
  /\ Ready(p)
  /\ LET rec == Call("listTodos", sessionId, userId, filter)
         got == StoreGet(sessionId, userId)
     IN CASE got.kind = "throw" -> Raise(p, rec, got.err)
          [] got.kind = "null" -> Complete(p, rec, ErrorPayload("SESSION_NOT_FOUND"))
          [] OTHER ->
               LET todos == got.val.todos
                   all == {todos[i] : i \in 1..Len(todos)}
               IN Complete(p, rec,
                    [kind |-> "todos",
                     val |-> IF filter \in {"pending", "done"}
                               THEN FilterTodos(todos, {t \in all : t.status = filter})
                               ELSE todos])
  /\ UNCHANGED <<storeVars, serverOf>>

(***************************************************************************)
(* Inputs the requests are called with                                     *)
(***************************************************************************)
SampleTodo ==
  [id |-> "t1", title |-> "Task 1", description |-> "Description",
   tags |-> <<"tag1", "tag2">>, status |-> "pending", createdAt |-> 1500]

ScratchpadUpdate == [scratchpad |-> "note A"]

TodosUpdate == [todos |-> <<SampleTodo>>]

UpdateInputs == {ScratchpadUpdate, TodosUpdate}

\* A field set that carries an owner
OwnerUpdate == [userId |-> "u2"]

\* A field set that carries its own lastModified
StampUpdate == [scratchpad |-> "note A", lastModified |-> 7200000]

TodoInputs ==
  { [title |-> "task 1", description |-> "", tags |-> <<>>],
    [title |-> "task 2", description |-> "d", tags |-> <<"tag1", "tag2">>] }

\* add_todo called with a title only
TitleOnlyInput == [title |-> "task 3", description |-> None, tags |-> None]

Owners == {None, "u1"}

(***************************************************************************)
(* The state after construction, and the specifications                    *)
(***************************************************************************)
Init ==
  /\ keyPrefix = KeyPrefix
  /\ conn = Connected
  /\ NoRequests
  /\ redis = [k \in Keys |->
       IF k = <<OtherPrefix, "s1">>
         THEN Foreign
         ELSE Absent]
  /\ now = 0
  /\ ttlSeconds = TtlHours * 60 * 60
  /\ proc = [p \in AllProcs |-> Idle]
  /\ serverOf = [p \in AllProcs |-> 1]
  /\ sessionLocks = [s \in Servers |-> [id \in SessionIds |-> 0]]
  /\ mutexes = [m \in 1..MaxMutex |-> FreeMutex]
  /\ nextMutex = 1
  /\ ret = NoRet

\* The store's operations on the sessions ids, called concurrently with the
\* field sets updates
StoreOps(ids, updates) ==
  \/ \E p \in Procs, userId \in Owners, id \in ids : CreateStart(p, userId, id)
  \/ \E p \in Procs, id \in ids : CreateRetry(p, id, MaxCollisions)
  \/ \E p \in Procs : CreateSetex(p)
  \/ \E p \in Procs, id \in ids, userId \in Callers : Get(p, id, userId)
  \/ \E p \in Procs, id \in ids, u \in updates, userId \in Callers :
       UpdateStart(p, id, u, userId)
  \/ \E p \in Procs : UpdateTtl(p)
  \/ \E p \in Procs : UpdateSetex(p)
  \/ \E p \in Procs, id \in ids, userId \in Callers : DeleteStart(p, id, userId)
  \/ \E p \in Procs : DeleteDel(p)
  \/ \E p \in Procs, id \in ids : Exists(p, id)

\* Spec: the store's operations on two session ids, at one instant
Next == StoreOps(SessionIds, {ScratchpadUpdate})

Spec == Init /\ [][Next]_vars

\* SpecTime: the store's operations on one session id while time passes
NextTime == StoreOps({"s1"}, {ScratchpadUpdate}) \/ Tick(MaxTicks)

SpecTime == Init /\ [][NextTime]_vars

\* SpecFields: the store's operations on one session id, updates of either field
NextFields == StoreOps({"s1"}, UpdateInputs)

SpecFields == Init /\ [][NextFields]_vars

\* SpecCreate: creates that draw colliding candidates up to the attempt
\* limit, among deletes.  The event loop resumes a create whenever the reply
\* it awaits has arrived.
NextCreate ==
  \/ \E p \in Procs, userId \in Owners, id \in SessionIds : CreateStart(p, userId, id)
  \/ \E p \in Procs, id \in SessionIds : CreateRetry(p, id, MaxAttempts + 1)
  \/ \E p \in Procs : CreateSetex(p)
  \/ \E p \in Procs, id \in SessionIds : DeleteStart(p, id, "u1")
  \/ \E p \in Procs : DeleteDel(p)

SpecCreate ==
  /\ Init
  /\ [][NextCreate]_vars
  /\ \A p \in Procs :
       /\ WF_vars(\E id \in SessionIds : CreateRetry(p, id, MaxAttempts + 1))
       /\ WF_vars(CreateSetex(p))

\* The state after one create(owner) that drew the id s1
InitLive ==
  /\ keyPrefix = KeyPrefix
  /\ conn = Connected
  /\ NoRequests
  /\ \E owner \in Owners :
       redis = [k \in Keys |->
         IF k = GetKey("s1")
           THEN [present |-> TRUE,
                 value |-> SerializeSession([id |-> "s1", userId |-> owner,
                             scratchpad |-> "", todos |-> <<>>,
                             createdAt |-> 0, lastModified |-> 0]),
                 ttl |-> TtlHours * 60 * 60]
           ELSE Absent]
  /\ now = 0
  /\ ttlSeconds = TtlHours * 60 * 60
  /\ proc = [p \in AllProcs |-> Idle]
  /\ serverOf = [p \in AllProcs |-> 1]
  /\ sessionLocks = [s \in Servers |-> [id \in SessionIds |-> 0]]
  /\ mutexes = [m \in 1..MaxMutex |-> FreeMutex]
  /\ nextMutex = 1
  /\ ret = NoRet

\* SpecAdd: concurrent addTodo calls on one live session in one server
NextAdd ==
  \/ \E p \in Procs, input \in TodoInputs, userId \in Callers :
       AddTodo(p, "s1", input, userId)
  \/ \E p \in Procs : ToolGet(p)
  \/ \E p \in Procs, todoId \in TodoIds : AddBody(p, todoId)
  \/ \E p \in Procs : UpdateTtl(p)
  \/ \E p \in Procs : UpdateSetex(p)

SpecAdd == InitLive /\ [][NextAdd]_vars

\* SpecLocks: addTodo and updateTodo calls by the owner on one session,
\* among deletes of the session and removeSessionLock calls for its id
NextLocks ==
  \/ \E p \in Procs :
       AddTodo(p, "s1", [title |-> "task 1", description |-> "", tags |-> <<>>], "u1")
  \/ \E p \in Procs : UpdateTodo(p, "s1", "t1", "done", "u1")
  \/ \E p \in Procs : ToolGet(p)
  \/ \E p \in Procs : AddBody(p, "t1")
  \/ \E p \in Procs : UpdateBody(p)
  \/ \E p \in Procs : UpdateTtl(p)
  \/ \E p \in Procs : UpdateSetex(p)
  \/ \E p \in Procs : DeleteStart(p, "s1", "u1")
  \/ \E p \in Procs : DeleteDel(p)
  \/ RemoveSessionLock(1, "s1")

SpecLocks == InitLive /\ [][NextLocks]_vars
\* SpecOwner: the store's operations on one session id, with updates whose
\* field set carries an owner
NextOwner == StoreOps({"s1"}, {ScratchpadUpdate, OwnerUpdate})

SpecOwner == Init /\ [][NextOwner]_vars
\* SpecStamp: the store's operations on one session id while time passes,
\* with updates whose field set carries a lastModified
NextStamp == StoreOps({"s1"}, {StampUpdate}) \/ Tick(MaxTicks)

SpecStamp == Init /\ [][NextStamp]_vars
\* SpecSeq: one request at a time calls the store's operations on two
\* session ids, updates of either field, while time passes
NextSeq ==
  \/ \E userId \in Owners, id \in SessionIds : CreateStart(1, userId, id)
  \/ \E id \in SessionIds : CreateRetry(1, id, MaxCollisions)
  \/ CreateSetex(1)
  \/ \E id \in SessionIds : Get(1, id, "u1")
  \/ \E id \in SessionIds, u \in UpdateInputs : UpdateStart(1, id, u, "u1")
  \/ UpdateTtl(1)
  \/ UpdateSetex(1)
  \/ \E id \in SessionIds : DeleteStart(1, id, "u1")
  \/ DeleteDel(1)
  \/ Tick(MaxTicks)

SpecSeq == Init /\ [][NextSeq]_vars

(***************************************************************************)
(* Properties                                                              *)
(***************************************************************************)
\* The session id has a record in the backend
Live(sessionId) == redis[GetKey(sessionId)].present

\* The owner the stored record of the session is bound to, None if unbound
StoredOwner(sessionId) ==
  LET d == redis[GetKey(sessionId)].value
  IN IF "userId" \in DOMAIN d THEN d.userId ELSE None

\* Request p takes the step
Acts(p) == proc'[p] # proc[p] \/ (ret'.op # "none" /\ ret'.p = p)

\* The call request p is running in the step it takes
CallOf(p) ==
  IF proc[p].pc # "idle" THEN proc[p]
  ELSE IF proc'[p].pc # "idle" THEN proc'[p] ELSE ret'

OwnerCheckedOps ==
  {"get", "update", "delete", "addTodo", "listTodos", "updateTodo", "deleteTodo"}

\* C1: a get of a live session is refused with UserIdMismatchError exactly
\* when the stored record is bound to an owner and the caller's id is absent
\* or another one; in every other case (caller is the owner, or the record
\* is unbound and the caller is anyone or absent) it returns the stored
\* session.
C1_GetValidatesOwner ==
  (ret.op = "get" /\ Live(ret.sid)) =>
    IF StoredOwner(ret.sid) # None /\ ret.uid # StoredOwner(ret.sid)
      THEN ret.result = Throw("UserIdMismatchError")
      ELSE /\ ret.result.kind = "session"
           /\ ret.result.val = DeserializeSession(redis[GetKey(ret.sid)].value)
           /\ ret.result.val.id = ret.sid
           /\ ret.result.val.userId = StoredOwner(ret.sid)

\* A get without a caller id was refused on a session bound to an owner
C1_Witness ==
  /\ ret.op = "get"
  /\ ret.uid = None
  /\ Live(ret.sid)
  /\ StoredOwner(ret.sid) = "u1"
  /\ ret.result = Throw("UserIdMismatchError")

\* C2: an update or delete called on a live session bound to owner u by a
\* caller whose id is absent or differs from u raises UserIdMismatchError
\* and leaves the whole backend (value and remaining TTL of every key) as it
\* was; called by u it is let through, and an update or delete that was let
\* through returns successfully.
C2_MismatchLeavesBackend ==
  [][\A p \in Procs :
       /\ ( /\ proc[p].pc = "idle"
            /\ Acts(p)
            /\ CallOf(p).op \in {"update", "delete"}
            /\ Live(CallOf(p).sid)
            /\ StoredOwner(CallOf(p).sid) # None )
          => IF CallOf(p).uid = StoredOwner(CallOf(p).sid)
               THEN proc'[p].pc \in {"u_got", "d_got"}
               ELSE /\ ret'.op # "none"
                    /\ ret'.result = Throw("UserIdMismatchError")
                    /\ redis' = redis
       /\ (proc[p].op \in {"update", "delete"} /\ proc'[p].pc = "idle")
          => (ret'.op = proc[p].op /\ ret'.result = Ok)
    ]_vars

\* An update by another user was refused on a session bound to u1 whose
\* remaining TTL had already run down
C2_Witness ==
  /\ ret.op = "update"
  /\ ret.uid = "u2"
  /\ Live(ret.sid)
  /\ StoredOwner(ret.sid) = "u1"
  /\ redis[GetKey(ret.sid)].ttl < ttlSeconds
  /\ ret.result = Throw("UserIdMismatchError")

\* C3: a step of a get, update, delete or todo call whose caller id is not
\* the owner the stored record is bound to leaves that record as it is and
\* returns none of its content.
C3_NonOwnerNoEffect ==
  [][\A p \in Procs :
       ( /\ Acts(p)
         /\ CallOf(p).op \in OwnerCheckedOps
         /\ Live(CallOf(p).sid)
         /\ StoredOwner(CallOf(p).sid) # None
         /\ CallOf(p).uid # StoredOwner(CallOf(p).sid) )
       => /\ redis'[GetKey(CallOf(p).sid)] = redis[GetKey(CallOf(p).sid)]
          /\ (ret'.op # "none" =>
                ret'.result.kind \notin {"session", "todo", "todos", "success"})
    ]_vars

\* C6: update holds the session's lock over its read, merge and write, so
\* the write of an update changes only the fields the call set: every other
\* field of the stored record, a concurrent update's new value included,
\* stays as stored.
C6_ConcurrentUpdatesBothApply ==
  [][\A p \in Procs :
       ( /\ proc[p].op = "update"
         /\ proc[p].pc = "u_ttl"
         /\ proc'[p].pc = "idle"
         /\ Live(proc[p].sid) )
       => \A field \in {"scratchpad", "todos"} \ DOMAIN proc[p].arg :
            redis'[GetKey(proc[p].sid)].value[field]
              = redis[GetKey(proc[p].sid)].value[field]
    ]_vars

\* C8: a session id without a record gets one only through create: once a
\* delete has removed the record, no write of an operation that was in
\* flight brings it back, so later get and exists calls find nothing.
C8_DeletedStaysDeleted ==
  [][\A id \in SessionIds :
       (~Live(id) /\ redis'[GetKey(id)].present) => ret'.op = "create"
    ]_vars

\* C9: a create that reaches its write while the backend holds a record
\* under the id it chose fails and leaves that record as it is.
C9_CreateNeverOverwrites ==
  [][\A p \in Procs :
       ( /\ proc[p].op = "create"
         /\ proc'[p].pc = "idle"
         /\ Live(proc[p].id) )
       => /\ ret'.result.kind = "throw"
          /\ redis' = redis
    ]_vars

\* The todos of the stored record of the session
StoredTodos(sessionId) == redis[GetKey(sessionId)].value.todos

\* C4: concurrent addTodo calls on one live session are never lost.  Every
\* addTodo call by a caller the session accepts returns the todo it added,
\* and its write appends exactly that todo to the todos stored at that
\* moment; the stored todos change in no other way.  So N such calls leave
\* exactly N more todos.
C4_AddTodoNoLostUpdate ==
  [][ /\ (ret'.op = "addTodo" /\ ~ValidateUserIdThrows([userId |-> StoredOwner("s1")], ret'.uid))
           => /\ ret'.result.kind = "todo"
              /\ StoredTodos("s1")' = Append(StoredTodos("s1"), SerializeTodo(ret'.result.val))
      /\ (StoredTodos("s1")' # StoredTodos("s1"))
           => (ret'.op = "addTodo" /\ ret'.result.kind = "todo")
    ]_vars

\* An addTodo returned its todo while the other request's addTodo on the
\* same session, called meanwhile, was waiting for the mutex; the session
\* now holds one more todo
C4_Witness ==
  /\ ret.op = "addTodo"
  /\ ret.result.kind = "todo"
  /\ \E q \in Procs \ {ret.p} :
       /\ proc[q].op = "addTodo"
       /\ proc[q].sid = ret.sid
       /\ proc[q].pc = "t_wait"
  /\ Len(StoredTodos(ret.sid)) = 1

\* Request p is inside the runExclusive body of a lock-protected tool
InBody(p) ==
  proc[p].op \in LockedOps /\ proc[p].pc \in {"t_got", "u_got", "u_ttl"}

\* C5: in one server process no two requests are inside the lock-protected
\* body of addTodo, updateTodo or deleteTodo for the same session id at the
\* same time.
C5_OneBodyPerSession ==
  \A p, q \in Procs :
    (p # q /\ InBody(p) /\ InBody(q) /\ serverOf[p] = serverOf[q])
      => proc[p].sid # proc[q].sid

\* C7: when a delete has returned successfully the backend holds no record
\* under the id and the lock table of the server holds no Mutex for it.
C7_DeleteRemovesRecordAndLock ==
  (ret.op = "delete" /\ ret.result = Ok)
    => /\ ~Live(ret.sid)
       /\ sessionLocks[serverOf[ret.p]][ret.sid] = 0

\* C10: id generation terminates within the attempt limit.  A create checks
\* one candidate per iteration and never a tenth-plus-one; it goes on to
\* another candidate only after the backend reported the last one existing
\* and writes the session under the first candidate reported missing; after
\* ten collisions it raises its error and leaves the backend as it was; and
\* every create in progress eventually returns.
C10_GenerationTerminates ==
  /\ [](\A p \in Procs : proc[p].op = "create" => proc[p].attempts \in 1..10)
  /\ [][\A p \in Procs :
          /\ (proc[p].op = "create" /\ proc'[p].op = "create"
                /\ proc'[p].attempts # proc[p].attempts)
               => (proc[p].found /\ proc'[p].attempts = proc[p].attempts + 1)
          /\ (proc[p].op = "create" /\ proc'[p].pc = "idle"
                /\ ret'.result.kind = "session")
               => (~proc[p].found /\ ret'.result.val.id = proc[p].id
                     /\ redis'[GetKey(proc[p].id)].present)
          /\ (proc[p].op = "create" /\ proc'[p].pc = "idle"
                /\ ret'.result.kind # "session")
               => (proc[p].found /\ proc[p].attempts = 10
                     /\ ret'.result.kind = "throw" /\ redis' = redis)
       ]_vars
  /\ \A p \in Procs : (proc[p].op = "create") ~> (proc[p].pc = "idle")

\* A create gave up after ten colliding candidates
C10_Witness ==
  /\ ret.op = "create"
  /\ ret.result.kind = "throw"
  /\ \A id \in SessionIds : Live(id)

\* C11: a get(id, owner) that is the very next step after a successful
\* create(owner) returned the session with that id returns a record equal to
\* the one create returned: same id and owner, empty scratchpad, no todos,
\* createdAt = lastModified.
C11_GetAfterCreate ==
  [][( /\ ret.op = "create"
       /\ ret.result.kind = "session"
       /\ ret'.op = "get"
       /\ ret'.sid = ret.result.val.id
       /\ ret'.uid = ret.uid )
     => /\ ret'.result = [kind |-> "session", val |-> ret.result.val]
        /\ ret'.result.val.id = ret'.sid
        /\ ret'.result.val.userId = ret.uid
        /\ ret'.result.val.scratchpad = ""
        /\ ret'.result.val.todos = <<>>
        /\ ret'.result.val.createdAt = ret'.result.val.lastModified
    ]_vars

\* The owner's get returned a session that was created at the present time,
\* after the clock had advanced: empty, bound to the owner
C11_Witness ==
  /\ ret.op = "get"
  /\ ret.uid = "u1"
  /\ ret.result.kind = "session"
  /\ now > 0
  /\ ret.result.val.createdAt = NewDate
  /\ ret.result.val.userId = "u1"
  /\ ret.result.val.todos = <<>>

\* C12: the write of an update keeps the remaining TTL.  When the TTL query
\* of the update found the key (any reply but -2), the expiry it writes is
\* the remaining TTL that query reported; the configured TTL is written only
\* when the query reported the key as not found.
C12_UpdatePreservesTtl ==
  [][\A p \in Procs :
       (proc[p].op = "update" /\ proc[p].pc = "u_ttl" /\ proc'[p].pc = "idle")
       => IF proc[p].ttl # -2
            THEN redis'[GetKey(proc[p].sid)].ttl = proc[p].ttl
            ELSE redis'[GetKey(proc[p].sid)].ttl = ttlSeconds
    ]_vars

\* C13: a stored session always expires by its creation time plus the
\* configured TTL: the time at which Redis will drop the key (now plus its
\* remaining TTL) never lies after that deadline, so no get or exists finds
\* the session from the deadline on and no operation moves the deadline.
C13_NeverReadablePastDeadline ==
  \A id \in SessionIds :
    Live(id) =>
      (now + redis[GetKey(id)].ttl) * 1000
        <= ParseDate(redis[GetKey(id)].value.createdAt) + ttlSeconds * 1000

\* C14: an update or delete called for an id that has no record raises
\* SessionNotFoundError and changes nothing in the backend (no record
\* appears under the id, the number of sessions stays the same); a get for
\* such an id returns null instead of raising.
C14_MissingSession ==
  [][\A p \in Procs :
       /\ ( /\ proc[p].pc = "idle"
            /\ Acts(p)
            /\ CallOf(p).op \in {"update", "delete"}
            /\ ~Live(CallOf(p).sid) )
          => /\ ret'.op = CallOf(p).op
             /\ ret'.result = Throw("SessionNotFoundError")
             /\ redis' = redis
             /\ ~redis'[GetKey(ret'.sid)].present
             /\ Cardinality(RedisKeys(KeysPattern))' = Cardinality(RedisKeys(KeysPattern))
       /\ ( /\ proc[p].pc = "idle"
            /\ Acts(p)
            /\ CallOf(p).op = "get"
            /\ ~Live(CallOf(p).sid) )
          => ret'.result = [kind |-> "null"]
    ]_vars

\* A delete of an id without a record raised SessionNotFoundError while the
\* other session was stored
C14_Witness ==
  /\ ret.op = "delete"
  /\ ~Live(ret.sid)
  /\ ret.result = Throw("SessionNotFoundError")
  /\ Cardinality(RedisKeys(KeysPattern)) = 1

\* C15: the owner of a stored session never changes: no step other than the
\* write of a create leaves a session that was stored before the step stored
\* with another owner (or with none).
C15_OwnerImmutable ==
  [][\A id \in SessionIds :
       (Live(id) /\ redis'[GetKey(id)].present /\ ret'.op # "create")
       => StoredOwner(id)' = StoredOwner(id)
    ]_vars

\* lastModified of the stored record of the session, as a Date
StoredLastModified(sessionId) == ParseDate(redis[GetKey(sessionId)].value.lastModified)

\* C16: every stored session has lastModified >= createdAt; an update stamps
\* the record it is going to write with the present time, whatever
\* lastModified its field set carries; and its write never leaves the stored
\* session with an earlier lastModified than it had.
C16_LastModifiedAdvances ==
  /\ [](\A id \in SessionIds :
          Live(id) =>
            StoredLastModified(id) >= ParseDate(redis[GetKey(id)].value.createdAt))
  /\ [][\A p \in Procs :
          /\ (proc[p].op = "update" /\ proc[p].pc = "u_got" /\ proc'[p].pc = "u_ttl")
               => proc'[p].data.lastModified = ToISOString(NewDate)
          /\ (proc[p].op = "update" /\ proc[p].pc = "u_ttl" /\ proc'[p].pc = "idle")
               => LET written == ParseDate(redis'[GetKey(proc[p].sid)].value.lastModified)
                  IN /\ written = ParseDate(proc[p].data.lastModified)
                     /\ written <= NewDate
                     /\ Live(proc[p].sid) => written >= StoredLastModified(proc[p].sid)
       ]_vars

\* C17: the write of a successful update, when no other request wrote in
\* between, changes the stored record of its session in exactly the fields
\* the call provided, which take the provided values (the scratchpad as a
\* whole), and in lastModified, which is stamped; id, createdAt, the owner
\* and the fields not provided stay as stored, and so does every other key.
C17_UpdateFrame ==
  [][\A p \in Procs :
       ( /\ proc[p].op = "update"
         /\ proc[p].pc = "u_ttl"
         /\ proc'[p].pc = "idle"
         /\ Live(proc[p].sid) )
       => LET key == GetKey(proc[p].sid)
              old == redis[key].value
              new == redis'[key].value
              arg == proc[p].arg
          IN /\ ret'.result = Ok
             /\ new.id = old.id
             /\ new.createdAt = old.createdAt
             /\ ("userId" \in DOMAIN new) = ("userId" \in DOMAIN old)
             /\ "userId" \in DOMAIN old => new.userId = old.userId
             /\ new.scratchpad = IF "scratchpad" \in DOMAIN arg
                                   THEN arg.scratchpad ELSE old.scratchpad
             /\ new.todos = IF "todos" \in DOMAIN arg
                              THEN [i \in 1..Len(arg.todos) |-> SerializeTodo(arg.todos[i])]
                              ELSE old.todos
             /\ ParseDate(new.lastModified) >= ParseDate(old.lastModified)
             /\ ParseDate(new.lastModified) <= NewDate
             /\ \A k \in Keys \ {key} : redis'[k] = redis[k]
    ]_vars

\* An update of the scratchpad returned on a session that holds a todo and
\* was created earlier, while the other session is stored too
C17_Witness ==
  /\ ret.op = "update"
  /\ ret.arg = ScratchpadUpdate
  /\ ret.result = Ok
  /\ Live(ret.sid)
  /\ redis[GetKey(ret.sid)].value.scratchpad = "note A"
  /\ Len(StoredTodos(ret.sid)) = 1
  /\ StoredLastModified(ret.sid) > ParseDate(redis[GetKey(ret.sid)].value.createdAt)
  /\ \A id \in SessionIds : Live(id)

(***************************************************************************)
(* SpecTools: three requests call addTodo, updateTodo and deleteTodo on a  *)
(* stored session (s1) and on an id without a record (s2); backend         *)
(* commands may be rejected.  The event loop resumes a request whenever    *)
(* what it awaits (the mutex, a backend reply) has arrived.                *)
(***************************************************************************)
\* Calls of addTodo are issued while the session has room for their todos
CanAdd(sessionId) ==
  (IF Live(sessionId) THEN Len(StoredTodos(sessionId)) ELSE 0)
    + Cardinality({q \in AllProcs : proc[q].op = "addTodo" /\ proc[q].sid = sessionId})
    < MaxTodos

ToolProgress(p) ==
  \/ ToolGet(p)
  \/ AddBody(p, "t1")
  \/ UpdateBody(p)
  \/ DeleteBody(p)
  \/ UpdateTtl(p)
  \/ UpdateSetex(p)

NextTools ==
  \/ \E p \in LockProcs, id \in SessionIds :
       /\ CanAdd(id)
       /\ AddTodo(p, id, [title |-> "task 1", description |-> "", tags |-> <<>>], "u1")
  \/ \E p \in LockProcs : UpdateTodo(p, "s1", "t1", "done", "u1")
  \/ \E p \in LockProcs : DeleteTodo(p, "s1", "t1", "u1")
  \/ \E p \in LockProcs : ToolProgress(p)
  \/ \E p \in LockProcs : BackendFail(p)

SpecTools ==
  /\ InitLive
  /\ [][NextTools]_vars
  /\ \A p \in LockProcs : WF_vars(ToolProgress(p))

\* C18: every exit of addTodo, updateTodo or deleteTodo, by a result, an
\* encoded error or an exception, releases the session's Mutex: the request
\* that left no longer holds it, the first waiter holds it if there is one,
\* else it is free; and a Mutex is only ever held by a request that is
\* still inside its call.
C18_EveryExitReleases ==
  /\ [](\A m \in 1..MaxMutex :
          mutexes[m].holder # 0 =>
            /\ proc[mutexes[m].holder].op \in LockedOps
            /\ proc[mutexes[m].holder].lock = m)
  /\ [][\A p \in AllProcs :
          (proc[p].op \in LockedOps /\ proc'[p].pc = "idle")
          => LET m == proc[p].lock
             IN /\ mutexes[m].holder = p
                /\ mutexes'[m].holder # p
                /\ IF mutexes[m].queue = <<>>
                     THEN mutexes'[m] = FreeMutex
                     ELSE mutexes'[m] = [holder |-> Head(mutexes[m].queue),
                                         queue |-> Tail(mutexes[m].queue)]
       ]_vars

\* A todo tool ended by raising a backend error, and the request that was
\* waiting for the session's Mutex now holds it
C18_Witness ==
  /\ ret.op \in LockedOps
  /\ ret.result = Throw("Error")
  /\ \E q \in AllProcs :
       /\ proc[q].pc = "t_wait"
       /\ proc[q].sid = ret.sid
       /\ mutexes[proc[q].lock].holder = q

\* C19: lock-protected operations on a session run in the order in which
\* they asked for its Mutex.  A request joins the waiters at the tail and
\* nowhere else, the Mutex passes from its holder to the first waiter only,
\* nobody waits on a free Mutex, and only the holder is inside the body: so
\* the body of a request that asked earlier has ended before the body of
\* one that asked later begins.
C19_ServedInArrivalOrder ==
  /\ [](\A m \in 1..MaxMutex : mutexes[m].holder = 0 => mutexes[m].queue = <<>>)
  /\ [](\A p \in AllProcs : InBody(p) => mutexes[proc[p].lock].holder = p)
  /\ [][\A m \in 1..MaxMutex :
          LET old == mutexes[m]
              new == mutexes'[m]
          IN \/ new = old
             \/ /\ old.holder = 0
                /\ new.queue = <<>>
                /\ proc[new.holder].pc = "idle"
                /\ proc'[new.holder].pc = "t_wait"
             \/ /\ old.holder # 0
                /\ new.holder = old.holder
                /\ Len(new.queue) = Len(old.queue) + 1
                /\ SubSeq(new.queue, 1, Len(old.queue)) = old.queue
                /\ proc[new.queue[Len(new.queue)]].pc = "idle"
             \/ /\ old.holder # 0
                /\ proc'[old.holder].pc = "idle"
                /\ IF old.queue = <<>>
                     THEN new = FreeMutex
                     ELSE new.holder = Head(old.queue) /\ new.queue = Tail(old.queue)
       ]_vars

\* A tool call has just ended and the session's Mutex went to the request
\* that had asked first, with the request that asked after it still waiting
C19_Witness ==
  /\ ret.op \in LockedOps
  /\ \E m \in 1..MaxMutex :
       /\ mutexes[m].holder # 0
       /\ mutexes[m].holder # ret.p
       /\ proc[mutexes[m].holder].pc = "t_wait"
       /\ Len(mutexes[m].queue) = 1

\* Request p holds the Mutex it asked for
HoldsLock(p) == proc[p].op \in LockedOps /\ mutexes[proc[p].lock].holder = p

\* C20: with backend calls that always return, every addTodo, updateTodo or
\* deleteTodo that has asked for a session's Mutex eventually ends, whatever
\* the other requests do on the same or on another session: each request is
\* idle again and again, so none of its calls stays open for ever.  And a
\* call leaves the wait for the Mutex only as its holder: so it eventually
\* holds the Mutex, and no set of requests waits for ever.
C20_ToolsComplete ==
  /\ \A p \in LockProcs : []<>(proc[p].pc = "idle")
  /\ [][\A p \in LockProcs :
          (proc[p].pc = "t_wait" /\ proc'[p].pc # "t_wait") => HoldsLock(p)]_vars

\* Two requests wait for the Mutex of one session while a third is inside
\* its body, and the Mutex of the other session exists too
C20_Witness ==
  /\ \E m \in 1..MaxMutex :
       /\ Len(mutexes[m].queue) = 2
       /\ InBody(mutexes[m].holder)
  /\ \A id \in SessionIds : sessionLocks[1][id] # 0

\* Request p waits in the queue of the Mutex it asked for
WaitsForLock(p) ==
  /\ proc[p].op \in LockedOps
  /\ proc[p].pc = "t_wait"
  /\ mutexes[proc[p].lock].holder # p

\* C21: locks are partitioned by session id.  A request that waits for a
\* Mutex waits behind a holder that works on the same session; a request
\* holds or queues for one Mutex at a time; and a tool called on a session
\* on which no other call is open holds the session's Mutex at once,
\* whatever is held for other sessions.
C21_LocksPartitioned ==
  /\ [](\A p \in LockProcs :
          WaitsForLock(p) =>
            LET q == mutexes[proc[p].lock].holder
            IN /\ q # 0
               /\ proc[q].op \in LockedOps
               /\ proc[q].sid = proc[p].sid)
  /\ [](\A p \in LockProcs :
          Cardinality({m \in 1..MaxMutex :
                         \/ mutexes[m].holder = p
                         \/ \E i \in 1..Len(mutexes[m].queue) : mutexes[m].queue[i] = p})
            <= 1)
  /\ [][\A p \in LockProcs :
          (/\ proc[p].pc = "idle"
           /\ proc'[p].op \in LockedOps
           /\ \A q \in LockProcs :
                proc[q].op \in LockedOps => proc[q].sid # proc'[p].sid)
          => mutexes'[proc'[p].lock].holder = p
       ]_vars

\* A tool call on s2 took the Mutex of s2 at once while a request held the
\* Mutex of s1 and another waited for it
C21_Witness ==
  \E p, q, r \in LockProcs :
    /\ HoldsLock(p) /\ proc[p].sid = "s2" /\ proc[p].pc = "t_wait"
    /\ HoldsLock(q) /\ proc[q].sid = "s1" /\ InBody(q)
    /\ WaitsForLock(r) /\ proc[r].sid = "s1"

(***************************************************************************)
(* SpecFail: get, update and delete of the store and the tools addTodo and *)
(* updateTodo, called by two requests on a stored session (s1) and on an   *)
(* id without a record (s2), with backend commands that may be rejected.   *)
(***************************************************************************)
NextFail ==
  \/ \E p \in Procs, id \in SessionIds : Get(p, id, "u1")
  \/ \E p \in Procs, id \in SessionIds : UpdateStart(p, id, ScratchpadUpdate, "u1")
  \/ \E p \in Procs : UpdateTtl(p)
  \/ \E p \in Procs : UpdateSetex(p)
  \/ \E p \in Procs, id \in SessionIds : DeleteStart(p, id, "u1")
  \/ \E p \in Procs : DeleteDel(p)
  \/ \E p \in Procs :
       /\ CanAdd("s1")
       /\ AddTodo(p, "s1", [title |-> "task 1", description |-> "", tags |-> <<>>], "u1")
  \/ \E p \in Procs, id \in SessionIds : UpdateTodo(p, id, "t1", "done", "u1")
  \/ \E p \in Procs : ToolGet(p)
  \/ \E p \in Procs : AddBody(p, "t1")
  \/ \E p \in Procs : UpdateBody(p)
  \/ \E p \in Procs, id \in SessionIds :
       \/ GetFail(p, "get", id, None, "u1")
       \/ GetFail(p, "update", id, ScratchpadUpdate, "u1")
       \/ GetFail(p, "delete", id, None, "u1")
  \/ \E p \in Procs : BackendFail(p)

SpecFail == InitLive /\ [][NextFail]_vars

\* A backend command of a request is rejected in this step
FailStep ==
  \/ \E p \in Procs : BackendFail(p)
  \/ \E p \in Procs, id \in SessionIds :
       \/ GetFail(p, "get", id, None, "u1")
       \/ GetFail(p, "update", id, ScratchpadUpdate, "u1")
       \/ GetFail(p, "delete", id, None, "u1")

\* What a call reports for a session that is not there
NotFoundResults ==
  {[kind |-> "null"], Throw("SessionNotFoundError"), ErrorPayload("SESSION_NOT_FOUND")}

CodecTags == {<<>>, <<"a", "b">>, <<"b", "a">>}

CodecFirstTodos ==
  [id : {"t1"}, title : {"task 1"}, description : {"", "first"}, tags : CodecTags,
   status : {"pending", "done"}, createdAt : {1500}]

CodecSecondTodos ==
  [id : {"t2"}, title : {"task 2"}, description : {""}, tags : {<<"a", "b">>},
   status : {"pending", "done"}, createdAt : {0}]

CodecTodos ==
  {<<>>} \cup {<<t>> : t \in CodecFirstTodos}
         \cup {<<t, u>> : t \in CodecFirstTodos, u \in CodecSecondTodos}
         \cup {<<u, t>> : t \in CodecFirstTodos, u \in CodecSecondTodos}

CodecSessions ==
  {[id |-> "s1", userId |-> owner, scratchpad |-> pad, todos |-> todos,
    createdAt |-> dates[1], lastModified |-> dates[2]] :
     owner \in Owners, pad \in {"", "note A"}, todos \in CodecTodos,
     dates \in {<<0, 0>>, <<500, 1500>>}}

\* serializeSession(session) is written to the session's key
Serialize(p, session) ==
  /\ Ready(p)
  /\ redis' = RedisSetex(GetKey(session.id), ttlSeconds, SerializeSession(session))
  /\ Complete(p, Call("serialize", session.id, session.userId, session), Ok)
  /\ UNCHANGED <<now, ttlSeconds, keyPrefix, conn, httpVars, serverOf>>

NextCodec ==
  \/ \E session \in CodecSessions : Serialize(1, session)
  \/ \E userId \in Owners : Get(1, "s1", userId)

SpecCodec == Init /\ [][NextCodec]_vars

\* C23: deserializing what serializeSession made of a session record gives
\* the record back, equal in every field: id, owner (also when unset),
\* scratchpad, both dates, the todos in their order and each todo's id,
\* title, description, status, date and tags in their order; and the get
\* that follows with the owner's identity returns that record.
C23_RoundTrip ==
  /\ [][(ret'.op = "serialize")
          => DeserializeSession(redis'[GetKey(ret'.sid)].value) = ret'.arg]_vars
  /\ [][(ret.op = "serialize" /\ ret'.op = "get" /\ ret'.uid = ret.arg.userId)
          => ret'.result = [kind |-> "session", val |-> ret.arg]]_vars

\* get returned a record with an owner, a date with a millisecond part and
\* two todos, the second of them with two tags
C23_Witness ==
  /\ ret.op = "get"
  /\ ret.result.kind = "session"
  /\ ret.result.val.userId # None
  /\ ret.result.val.lastModified % 1000 # 0
  /\ Len(ret.result.val.todos) = 2
  /\ ret.result.val.todos[2].tags = <<"b", "a">>

\* C24: exists(id) answers TRUE exactly when a record is stored under the
\* key of id at that moment, whoever owns it, and the call changes nothing
\* in the backend or in the lock table; a second call for the same id right
\* after the first gives the same answer.
C24_ExistsIsPure ==
  /\ [][(ret'.op = "exists")
          => /\ ret'.result = [kind |-> "bool", val |-> Live(ret'.sid)]
             /\ UNCHANGED <<storeVars, lockVars, serverOf>>]_vars
  /\ [][(ret.op = "exists" /\ ret'.op = "exists" /\ ret'.sid = ret.sid)
          => ret'.result = ret.result]_vars

\* exists answered TRUE for a session that has an owner, after the clock
\* had advanced
C24_Witness ==
  /\ ret.op = "exists"
  /\ ret.result.val
  /\ StoredOwner(ret.sid) = "u1"
  /\ now > 0

(***************************************************************************)
(* SpecAdmin: one caller creates, updates and deletes sessions and calls   *)
(* count, cleanup and clear, one call after the other, while time passes.  *)
(* The store is configured with a plain prefix or with one that holds a    *)
(* character class; Redis holds keys of two other namespaces too.          *)
(***************************************************************************)
InitAdmin ==
  /\ keyPrefix \in {KeyPrefix, ClassPrefix}
  /\ conn = Connected
  /\ NoRequests
  /\ redis = [k \in Keys |->
       IF k \in {<<OtherPrefix, "s1">>, <<DigitPrefix, "s1">>} THEN Foreign ELSE Absent]
  /\ now = 0
  /\ ttlSeconds = TtlHours * 60 * 60
  /\ proc = [p \in AllProcs |-> Idle]
  /\ serverOf = [p \in AllProcs |-> 1]
  /\ sessionLocks = [s \in Servers |-> [id \in SessionIds |-> 0]]
  /\ mutexes = [m \in 1..MaxMutex |-> FreeMutex]
  /\ nextMutex = 1
  /\ ret = NoRet

NextAdmin ==
  \/ \E userId \in Owners, id \in SessionIds : CreateStart(1, userId, id)
  \/ \E id \in SessionIds : CreateRetry(1, id, MaxCollisions)
  \/ CreateSetex(1)
  \/ \E id \in SessionIds : UpdateStart(1, id, ScratchpadUpdate, "u1")
  \/ UpdateTtl(1)
  \/ UpdateSetex(1)
  \/ \E id \in SessionIds : DeleteStart(1, id, "u1")
  \/ DeleteDel(1)
  \/ Count(1)
  \/ Cleanup(1)
  \/ ClearStart(1)
  \/ ClearDel(1)
  \/ Tick(MaxTicks)

SpecAdmin == InitAdmin /\ [][NextAdmin]_vars

\* Session ids with a record under the store's prefix
LiveIds == {id \in SessionIds : Live(id)}

\* C25: cleanup returns 0 and changes nothing: every key of Redis keeps its
\* value and its remaining TTL, so the number of stored sessions stays, and
\* no lock is touched, whatever is stored.
C25_CleanupIsNoOp ==
  [][(ret'.op = "cleanup")
       => /\ ret'.result = [kind |-> "number", val |-> 0]
          /\ redis' = redis
          /\ LiveIds' = LiveIds
          /\ UNCHANGED <<storeVars, lockVars, serverOf>>]_vars

\* cleanup returned while two sessions were stored, one of them with part
\* of its TTL gone
C25_Witness ==
  /\ ret.op = "cleanup"
  /\ LiveIds = SessionIds
  /\ \E id \in SessionIds : redis[GetKey(id)].ttl < ttlSeconds

\* C26: count returns the number of sessions stored under the store's
\* prefix; a create that returns a session adds one to that number, a delete
\* that succeeds takes one away and an update leaves it; clear removes every
\* record under the prefix and no other key, and the count that follows
\* it returns 0.
C26_CountAndClear ==
  /\ [][(ret'.op = "count") => ret'.result.val = Cardinality(LiveIds)]_vars
  /\ [][(ret'.op = "create" /\ ret'.result.kind = "session")
          => Cardinality(LiveIds') = Cardinality(LiveIds) + 1]_vars
  /\ [][(ret'.op = "delete" /\ ret'.result = Ok /\ Live(ret'.sid))
          => Cardinality(LiveIds') = Cardinality(LiveIds) - 1]_vars
  /\ [][(ret'.op = "update") => LiveIds' = LiveIds]_vars
  /\ [][(ret'.op = "clear")
          => /\ LiveIds' = {}
             /\ \A k \in Keys : k[1] # keyPrefix => redis'[k] = redis[k]]_vars
  /\ [][(ret.op = "clear" /\ ret'.op = "count") => ret'.result.val = 0]_vars

\* C27: every record the store holds lies under the key made of the
\* configured prefix and the session's id and carries that id in its id
\* field, so a session has one key; the keys of other prefixes hold no
\* session; and the key of a session that create returns holds the
\* serialized session with exactly the configured TTL.
C27_OneKeyPerSession ==
  /\ [](\A k \in Keys :
          redis[k].present =>
            IF k[1] = keyPrefix
              THEN DeserializeSession(redis[k].value).id = k[2]
              ELSE redis[k] = Foreign)
  /\ [][(ret'.op = "create" /\ ret'.result.kind = "session")
          => redis'[<<keyPrefix, ret'.result.val.id>>] =
               [present |-> TRUE, value |-> SerializeSession(ret'.result.val),
                ttl |-> ttlSeconds]]_vars

\* create returned the second session of a store whose prefix holds a
\* character class, after the first had been updated
C27_Witness ==
  /\ ret.op = "create"
  /\ ret.result.kind = "session"
  /\ keyPrefix = ClassPrefix
  /\ LiveIds = SessionIds
  /\ \E id \in SessionIds : redis[GetKey(id)].value.scratchpad = "note A"

(***************************************************************************)
(* SpecSnapshot: one caller creates, reads, updates and deletes sessions   *)
(* and changes the session objects that create and get handed out.         *)
(***************************************************************************)
NextSnapshot ==
  \/ \E userId \in Owners, id \in SessionIds : CreateStart(1, userId, id)
  \/ \E id \in SessionIds : CreateRetry(1, id, MaxCollisions)
  \/ CreateSetex(1)
  \/ \E id \in SessionIds, userId \in Owners : Get(1, id, userId)
  \/ CallerMutates(1, SampleTodo)
  \/ \E id \in SessionIds, u \in UpdateInputs : UpdateStart(1, id, u, "u1")
  \/ UpdateTtl(1)
  \/ UpdateSetex(1)
  \/ \E id \in SessionIds : DeleteStart(1, id, "u1")
  \/ DeleteDel(1)

SpecSnapshot == Init /\ [][NextSnapshot]_vars

NextAppend ==
  \/ \E id \in SessionIds, input \in {TitleOnlyInput} \cup TodoInputs, userId \in Callers :
       AddTodo(1, id, input, userId)
  \/ ToolGet(1)
  \/ \E todoId \in TodoIds : AddBody(1, todoId)
  \/ UpdateTtl(1)
  \/ UpdateSetex(1)
  \/ Tick(MaxTicks)

SpecAppend == InitLive /\ [][NextAppend]_vars

\* The session stored under id
Stored(sessionId) == DeserializeSession(redis[GetKey(sessionId)].value)

\* C29: an addTodo that returns a todo has appended exactly that todo, with
\* status pending and the title, description and tags of its input, at the
\* end of the session's todos: the todos stored before keep their fields
\* and order and no other field of the record changes but lastModified.
\* An addTodo whose get finds no record returns SESSION_NOT_FOUND, and every
\* addTodo that does not return a todo leaves Redis as it was.
C29_AddTodoAppends ==
  /\ [][(ret'.op = "addTodo" /\ ret'.result.kind = "todo" /\ Live(ret'.sid))
          => LET before == Stored(ret'.sid)
                 after == DeserializeSession(redis'[GetKey(ret'.sid)].value)
                 todo == ret'.result.val
             IN /\ after.todos = Append(before.todos, todo)
                /\ todo.status = "pending"
                /\ todo.title = ret'.arg.title
                /\ todo.description = OrElse(ret'.arg.description, "")
                /\ todo.tags = OrElse(ret'.arg.tags, <<>>)
                /\ after.scratchpad = before.scratchpad
                /\ after.id = before.id
                /\ after.userId = before.userId
                /\ after.createdAt = before.createdAt]_vars
  /\ [][(ret'.op = "addTodo" /\ ret'.result.kind # "todo") => redis' = redis]_vars
  /\ [][\A p \in Procs :
          (proc[p].op = "addTodo" /\ proc[p].pc = "t_wait" /\ proc'[p].pc # "t_wait"
             /\ ~Live(proc[p].sid))
          => ret' = Returned(p, proc[p], ErrorPayload("SESSION_NOT_FOUND"))]_vars
  /\ [][\A p \in Procs :
          (proc[p].op = "addTodo" /\ proc[p].pc = "t_wait" /\ proc'[p].pc # "t_wait"
             /\ Live(proc[p].sid)
             /\ ~ValidateUserIdThrows(Stored(proc[p].sid), proc[p].uid))
          => proc'[p].pc = "t_got"]_vars

\* An addTodo called with a title only returned its todo, which is now the
\* second of the session's todos, after a todo with tags
C29_Witness ==
  /\ ret.op = "addTodo"
  /\ ret.result.kind = "todo"
  /\ ret.arg = TitleOnlyInput
  /\ Live(ret.sid)
  /\ Len(Stored(ret.sid).todos) = 2
  /\ Stored(ret.sid).todos[1].tags = <<"tag1", "tag2">>
  /\ Stored(ret.sid).todos[2] = ret.result.val

(***************************************************************************)
(* SpecList: one request adds todos to the stored session and sets their   *)
(* status, while another lists the todos of s1 and s2 with each filter.    *)
(***************************************************************************)
Filters == {"all", "pending", "done"}

NextList ==
  \/ \E input \in TodoInputs :
       /\ CanAdd("s1")
       /\ AddTodo(1, "s1", input, "u1")
  \/ \E todoId \in TodoIds, status \in {"pending", "done"} :
       UpdateTodo(1, "s1", todoId, status, "u1")
  \/ ToolGet(1)
  \/ \E todoId \in TodoIds : AddBody(1, todoId)
  \/ UpdateBody(1)
  \/ UpdateTtl(1)
  \/ UpdateSetex(1)
  \/ \E id \in SessionIds, filter \in Filters, userId \in {"u1", "u2"} :
       ListTodos(2, id, filter, userId)

SpecList == InitLive /\ [][NextList]_vars

\* t has the status the filter asks for
HasStatus(t, filter) == filter = "all" \/ t.status = filter

\* C30: listTodos returns the stored todos that have the status of its
\* filter, all of them with filter all, in the order they are stored, and
\* nothing else; and whatever it returns, it leaves Redis and the locks as
\* they were.
C30_ListTodosFilters ==
  /\ [][(ret'.op = "listTodos" /\ ret'.result.kind = "todos")
          => LET stored == Stored(ret'.sid).todos
                 kept == {i \in 1..Len(stored) : HasStatus(stored[i], ret'.arg)}
                 listed == ret'.result.val
             IN /\ Len(listed) = Cardinality(kept)
                /\ \A n \in 1..Len(listed) :
                     \E i \in kept :
                       /\ listed[n] = stored[i]
                       /\ Cardinality({j \in kept : j < i}) = n - 1]_vars
  /\ [][(ret'.op = "listTodos") => UNCHANGED <<storeVars, lockVars, serverOf>>]_vars

\* After task 1 and task 2 were added and task 1 was marked done, listTodos
\* with filter pending returned exactly task 2
C30_Witness ==
  /\ ret.op = "listTodos"
  /\ ret.arg = "pending"
  /\ ret.result.kind = "todos"
  /\ Len(Stored("s1").todos) = 2
  /\ Stored("s1").todos[1].title = "task 1"
  /\ Stored("s1").todos[1].status = "done"
  /\ Stored("s1").todos[2].title = "task 2"
  /\ ret.result.val = <<Stored("s1").todos[2]>>

(***************************************************************************)
(* SpecTodos: the owner calls addTodo, updateTodo, deleteTodo and          *)
(* listTodos, one call after the other, on a stored session (s1) and on an *)
(* id without a record (s2), while time passes.  The session was created   *)
(* half a TTL ago and holds a scratchpad and either no todos or three of   *)
(* them.                                                                   *)
(***************************************************************************)
FirstTodo ==
  [id |-> "t1", title |-> "Task 1", description |-> "Description",
   tags |-> <<"tag1", "tag2">>, status |-> "pending", createdAt |-> 500]

SecondTodo ==
  [id |-> "t2", title |-> "Task 2", description |-> "",
   tags |-> <<>>, status |-> "done", createdAt |-> 1000]

ThirdTodo ==
  [id |-> "t3", title |-> "Task 3", description |-> "",
   tags |-> <<"tag1">>, status |-> "pending", createdAt |-> 1500]

Statuses == {"pending", "done"}

InitTodos ==
  /\ keyPrefix = KeyPrefix
  /\ conn = Connected
  /\ NoRequests
  /\ now = TickSeconds
  /\ ttlSeconds = TtlHours * 60 * 60
  /\ \E todos \in {<<>>, <<FirstTodo, SecondTodo, ThirdTodo>>} :
       redis = [k \in Keys |->
         IF k = GetKey("s1")
           THEN [present |-> TRUE,
                 value |-> SerializeSession([id |-> "s1", userId |-> "u1",
                             scratchpad |-> "note A", todos |-> todos,
                             createdAt |-> 0, lastModified |-> 1500]),
                 ttl |-> ttlSeconds - now]
           ELSE Absent]
  /\ proc = [p \in AllProcs |-> Idle]
  /\ serverOf = [p \in AllProcs |-> 1]
  /\ sessionLocks = [s \in Servers |-> [id \in SessionIds |-> 0]]
  /\ mutexes = [m \in 1..MaxMutex |-> FreeMutex]
  /\ nextMutex = 1
  /\ ret = NoRet

NextTodos ==
  \/ \E id \in SessionIds, input \in {TitleOnlyInput} : AddTodo(1, id, input, "u1")
  \/ \E id \in SessionIds, todoId \in TodoIds, status \in Statuses :
       UpdateTodo(1, id, todoId, status, "u1")
  \/ \E id \in SessionIds, todoId \in TodoIds : DeleteTodo(1, id, todoId, "u1")
  \/ \E id \in SessionIds : ListTodos(1, id, "all", "u1")
  \/ ToolGet(1)
  \/ \E todoId \in TodoIds : AddBody(1, todoId)
  \/ UpdateBody(1)
  \/ DeleteBody(1)
  \/ UpdateTtl(1)
  \/ UpdateSetex(1)
  \/ Tick(MaxTicks)

SpecTodos == InitTodos /\ [][NextTodos]_vars

\* C31: todo ids are unique within their session: no stored session holds
\* two todos with the same id.
C31_TodoIdsUnique ==
  \A id \in SessionIds :
    Live(id) =>
      \A i, j \in 1..Len(StoredTodos(id)) :
        StoredTodos(id)[i].id = StoredTodos(id)[j].id => i = j

\* C32: an updateTodo that returns a todo has changed the status of one
\* stored todo with the id it was called with, to the status it was called
\* with, and nothing else: the todo's other fields and position, the
\* number and order of the todos, every other todo and the other fields of
\* the record but lastModified are as before.  An updateTodo whose session
\* holds no todo with that id returns TODO_NOT_FOUND, and every updateTodo
\* that does not return a todo leaves Redis as it was.
C32_UpdateTodoFrame ==
  /\ [][(ret'.op = "updateTodo" /\ ret'.result.kind = "todo" /\ Live(ret'.sid))
          => LET before == Stored(ret'.sid)
                 after == DeserializeSession(redis'[GetKey(ret'.sid)].value)
             IN /\ \E i \in 1..Len(before.todos) :
                     /\ before.todos[i].id = ret'.arg.todo_id
                     /\ after.todos =
                          [before.todos EXCEPT ![i].status = ret'.arg.status]
                     /\ ret'.result.val = after.todos[i]
                /\ after.scratchpad = before.scratchpad
                /\ after.id = before.id
                /\ after.userId = before.userId
                /\ after.createdAt = before.createdAt]_vars
  /\ [][(ret'.op = "updateTodo" /\ ret'.result.kind # "todo") => redis' = redis]_vars
  /\ [][(proc[1].op = "updateTodo" /\ proc[1].pc = "t_got" /\ proc'[1] # proc[1]
           /\ Live(proc[1].sid)
           /\ \A i \in 1..Len(Stored(proc[1].sid).todos) :
                Stored(proc[1].sid).todos[i].id # proc[1].arg.todo_id)
          => /\ ret' = Returned(1, proc[1], ErrorPayload("TODO_NOT_FOUND"))
             /\ redis' = redis]_vars

\* An updateTodo returned the second of three todos, whose status it turned
\* from done to pending; the todo is still the second of three and keeps
\* its creation time
C32_Witness ==
  /\ ret.op = "updateTodo"
  /\ ret.result.kind = "todo"
  /\ ret.arg = [todo_id |-> "t2", status |-> "pending"]
  /\ Live(ret.sid)
  /\ Stored(ret.sid).todos = <<FirstTodo, [SecondTodo EXCEPT !.status = "pending"], ThirdTodo>>
  /\ Stored(ret.sid).scratchpad = "note A"

\* A TODO_NOT_FOUND reply of updateTodo on a stored session
C32_NotFoundWitness ==
  /\ ret.op = "updateTodo"
  /\ ret.result = ErrorPayload("TODO_NOT_FOUND")
  /\ Live(ret.sid)

\* The sequence without its i-th element
RemoveAt(seq, i) == SubSeq(seq, 1, i - 1) \o SubSeq(seq, i + 1, Len(seq))

\* C33: a deleteTodo that reports success has removed exactly one stored
\* todo, one with the id it was called with: the other todos keep their
\* fields and relative order and the other fields of the record but
\* lastModified are as before.  A deleteTodo whose session holds no todo
\* with that id returns TODO_NOT_FOUND, and every deleteTodo that does not
\* report success leaves Redis as it was.
C33_DeleteTodoRemovesOne ==
  /\ [][(ret'.op = "deleteTodo" /\ ret'.result.kind = "success" /\ Live(ret'.sid))
          => LET before == Stored(ret'.sid)
                 after == DeserializeSession(redis'[GetKey(ret'.sid)].value)
             IN /\ \E i \in 1..Len(before.todos) :
                     /\ before.todos[i].id = ret'.arg.todo_id
                     /\ after.todos = RemoveAt(before.todos, i)
                /\ after.scratchpad = before.scratchpad
                /\ after.id = before.id
                /\ after.userId = before.userId
                /\ after.createdAt = before.createdAt]_vars
  /\ [][(ret'.op = "deleteTodo" /\ ret'.result.kind # "success") => redis' = redis]_vars
  /\ [][(proc[1].op = "deleteTodo" /\ proc[1].pc = "t_got" /\ proc'[1] # proc[1]
           /\ Live(proc[1].sid)
           /\ \A i \in 1..Len(Stored(proc[1].sid).todos) :
                Stored(proc[1].sid).todos[i].id # proc[1].arg.todo_id)
          => /\ ret' = Returned(1, proc[1], ErrorPayload("TODO_NOT_FOUND"))
             /\ redis' = redis]_vars

(***************************************************************************)
(* SpecServers: two server processes share the Redis backend, each with    *)
(* its own sessionLocks table.  Request 1 is handled by server 1, the      *)
(* other requests by server 2; the requests of server 1 add "task 1" to    *)
(* the stored session s1 and those of server 2 add "task 2", as the owner. *)
(***************************************************************************)
ServerOfRequest(p) == IF p = 1 THEN 1 ELSE 2

ServerInput(server) ==
  IF server = 1 THEN [title |-> "task 1", description |-> "", tags |-> <<>>]
  ELSE [title |-> "task 2", description |-> "d", tags |-> <<"tag1", "tag2">>]

InitServers ==
  /\ keyPrefix = KeyPrefix
  /\ conn = Connected
  /\ NoRequests
  /\ redis = [k \in Keys |->
       IF k = GetKey("s1")
         THEN [present |-> TRUE,
               value |-> SerializeSession([id |-> "s1", userId |-> "u1",
                           scratchpad |-> "", todos |-> <<>>,
                           createdAt |-> 0, lastModified |-> 0]),
               ttl |-> TtlHours * 60 * 60]
         ELSE Absent]
  /\ now = 0
  /\ ttlSeconds = TtlHours * 60 * 60
  /\ proc = [p \in AllProcs |-> Idle]
  /\ serverOf = [p \in AllProcs |-> ServerOfRequest(p)]
  /\ sessionLocks = [s \in Servers |-> [id \in SessionIds |-> 0]]
  /\ mutexes = [m \in 1..MaxMutex |-> FreeMutex]
  /\ nextMutex = 1
  /\ ret = NoRet

NextServers ==
  \/ \E p \in Procs :
       /\ CanAdd("s1")
       /\ AddTodo(p, "s1", ServerInput(serverOf[p]), "u1")
  \/ \E p \in Procs : ToolGet(p)
  \/ \E p \in Procs, todoId \in TodoIds : AddBody(p, todoId)
  \/ \E p \in Procs : UpdateTtl(p)
  \/ \E p \in Procs : UpdateSetex(p)

SpecServers == InitServers /\ [][NextServers]_vars

\* C34: with two server processes on one backend, each with its own lock
\* table, addTodo calls lose updates.  The requests of different servers
\* never share a Mutex, while those of one server never run the body for
\* one session at the same time; every addTodo call reports success, with
\* its todo stored last at that moment; and a stored todo disappears only
\* by the write of an addTodo of another server.  The witness is a state
\* where the session holds fewer todos than calls have reported success.
C34_LostUpdateAcrossServers ==
  /\ [](\A p, q \in Procs :
          (p # q /\ proc[p].op \in LockedOps /\ proc[q].op \in LockedOps)
            => IF serverOf[p] = serverOf[q]
                 THEN ~(InBody(p) /\ InBody(q) /\ proc[p].sid = proc[q].sid)
                 ELSE proc[p].lock # proc[q].lock)
  /\ [][ret'.op = "addTodo"
          => /\ ret'.result.kind = "todo"
             /\ StoredTodos("s1")'[Len(StoredTodos("s1")')] = SerializeTodo(ret'.result.val)]_vars
  /\ [][\A i \in 1..Len(StoredTodos("s1")) :
          (\A j \in 1..Len(StoredTodos("s1")') : StoredTodos("s1")'[j] # StoredTodos("s1")[i])
            => /\ ret'.op = "addTodo"
               /\ StoredTodos("s1")[i].title # ret'.arg.title]_vars

\* Both servers have handled addTodo calls on s1 and every call has ended,
\* so at least two calls have reported success, the last one just now; the
\* session holds one todo
C34_Witness ==
  /\ \A s \in Servers : sessionLocks[s]["s1"] # 0
  /\ \A p \in Procs : proc[p].pc = "idle"
  /\ ret.op = "addTodo"
  /\ ret.result.kind = "todo"
  /\ Len(StoredTodos("s1")) = 1

(***************************************************************************)
(* SpecConfig: the store is constructed with a TTL of -1, 0 or 1 hours     *)
(* (SESSION_TTL_HOURS is read with parseInt and handed to the constructor  *)
(* as it is); then the store's operations are called on one session id.    *)
(***************************************************************************)
TtlConfigs == {-1, 0, TtlHours}

InitConfig ==
  /\ keyPrefix = KeyPrefix
  /\ conn = Connected
  /\ NoRequests
  /\ redis = [k \in Keys |-> Absent]
  /\ now = 0
  /\ \E ttlHours \in TtlConfigs : ttlSeconds = ttlHours * 60 * 60
  /\ proc = [p \in AllProcs |-> Idle]
  /\ serverOf = [p \in AllProcs |-> 1]
  /\ sessionLocks = [s \in Servers |-> [id \in SessionIds |-> 0]]
  /\ mutexes = [m \in 1..MaxMutex |-> FreeMutex]
  /\ nextMutex = 1
  /\ ret = NoRet

NextConfig == StoreOps({"s1"}, {ScratchpadUpdate})

SpecConfig == InitConfig /\ [][NextConfig]_vars

\* C35: every SETEX the store is about to issue, in create and in update,
\* carries an expiry greater than zero, whatever TTL the store was
\* constructed with.
C35_PositiveExpiry ==
  \A p \in Procs :
    /\ (proc[p].pc = "gen" /\ ~proc[p].found) => ttlSeconds > 0
    /\ proc[p].pc = "u_ttl" => NewTtl(proc[p].ttl) > 0

(***************************************************************************)
(* The connection lifecycle: the client's connect and close events set     *)
(* isConnected; connect() and disconnect() of the storage read it; the     *)
(* health endpoint reports isConnected() of the storage.                   *)
(***************************************************************************)
ConnFrame ==
  UNCHANGED <<redis, now, ttlSeconds, keyPrefix, httpVars, proc, serverOf, lockVars>>

\* What the caller 0 (main, the health endpoint) gets back
MainReturned(op, result) == Returned(0, Call(op, None, None, None), result)

\* this.client.on("connect", ...): the socket is connected
OnConnect ==
  /\ conn.type = "redis"
  /\ conn.status = "connecting"
  /\ conn' = With(conn, [isConnected |-> TRUE, status |-> "ready", last |-> "connect",
                         retries |-> 0])
  /\ ret' = NoRet
  /\ ConnFrame

\* Variant: the close event leaves isConnected as it is
OnClose_KeepsStatus ==
  /\ conn.type = "redis"
  /\ conn.status \in {"connecting", "ready"}
  /\ LET ends == conn.quitting \/ conn.retries >= MaxRetries
     IN conn' = With(conn, [last |-> "close",
                            status |-> IF ends THEN "end" ELSE "reconnecting",
                            retries |-> IF ends THEN conn.retries ELSE conn.retries + 1,
                            quitting |-> FALSE])
  /\ ret' = NoRet
  /\ ConnFrame

\* this.client.on("close", ...): the connection is lost, could not be made,
\* or was closed after quit.  The client then reconnects unless it was
\* closed by quit or retryStrategy gives up.
OnClose ==
  /\ conn.type = "redis"
  /\ conn.status \in {"connecting", "ready"}
  /\ LET ends == conn.quitting \/ conn.retries >= MaxRetries
     IN conn' = With(conn, [isConnected |-> FALSE, last |-> "close",
                            status |-> IF ends THEN "end" ELSE "reconnecting",
                            retries |-> IF ends THEN conn.retries ELSE conn.retries + 1,
                            quitting |-> FALSE])
  /\ ret' = NoRet
  /\ ConnFrame

\* The delay retryStrategy returned has passed
Reconnect ==
  /\ conn.type = "redis"
  /\ conn.status = "reconnecting"
  /\ conn' = With(conn, [status |-> "connecting"])
  /\ ret' = NoRet
  /\ ConnFrame

\* storage.connect(): a no-op for the in-memory storage; the Redis store
\* calls client.connect() unless isConnected, and the client refuses while it
\* is connecting or connected already.
Connect ==
  /\ IF conn.type = "memory" \/ conn.isConnected
       THEN /\ conn' = conn
            /\ ret' = MainReturned("connect", [kind |-> "skipped"])
       ELSE IF conn.status \in {"connecting", "ready"}
         THEN /\ conn' = conn
              /\ ret' = MainReturned("connect", Throw("Error"))
         ELSE /\ conn' = With(conn, [status |-> "connecting", retries |-> 0])
              /\ ret' = MainReturned("connect", [kind |-> "started"])
  /\ ConnFrame

\* storage.disconnect(): a no-op for the in-memory storage; the Redis store
\* sends quit if isConnected
Disconnect ==
  /\ IF conn.type = "redis" /\ conn.isConnected
       THEN /\ conn' = With(conn, [quitting |-> TRUE])
            /\ ret' = MainReturned("disconnect", [kind |-> "quit"])
       ELSE /\ conn' = conn
            /\ ret' = MainReturned("disconnect", [kind |-> "skipped"])
  /\ ConnFrame

\* storage.isConnected(): getConnectionStatus() of the Redis store, true for
\* the in-memory storage
IsConnected == IF conn.type = "memory" THEN TRUE ELSE conn.isConnected

\* GET /health reports storage.isConnected()
Health ==
  /\ ret' = MainReturned("health", [kind |-> "status", val |-> IsConnected])
  /\ UNCHANGED <<storeVars, proc, serverOf, lockVars>>

(***************************************************************************)
(* SpecConn: a storage of either type after construction; main connects    *)
(* and disconnects, the client's events arrive, the health endpoint is     *)
(* asked, and a request creates sessions and counts them while the Redis   *)
(* client is ready.                                                        *)
(***************************************************************************)
InitConn ==
  /\ keyPrefix = KeyPrefix
  /\ conn \in {Unconnected, InMemory}
  /\ NoRequests
  /\ redis = [k \in Keys |-> Absent]
  /\ now = 0
  /\ ttlSeconds = TtlHours * 60 * 60
  /\ proc = [p \in AllProcs |-> Idle]
  /\ serverOf = [p \in AllProcs |-> 1]
  /\ sessionLocks = [s \in Servers |-> [id \in SessionIds |-> 0]]
  /\ mutexes = [m \in 1..MaxMutex |-> FreeMutex]
  /\ nextMutex = 1
  /\ ret = NoRet

NextConn ==
  \/ Connect
  \/ Disconnect
  \/ OnConnect
  \/ OnClose
  \/ Reconnect
  \/ Health
  \/ \E userId \in Owners, id \in SessionIds :
       conn.status = "ready" /\ CreateStart(1, userId, id)
  \/ \E id \in SessionIds : conn.status = "ready" /\ CreateRetry(1, id, MaxCollisions)
  \/ conn.status = "ready" /\ CreateSetex(1)
  \/ conn.status = "ready" /\ Count(1)

SpecConn == InitConn /\ [][NextConn]_vars

\* C36: the Redis store's isConnected is false after construction, every
\* connect event sets it and every close event clears it, so it is true
\* exactly when the latest of these events was a connect; connect() starts
\* a connection only when it is false and disconnect() sends quit only when
\* it is true; the health endpoint reports it, and reports true for the
\* in-memory storage whatever happens.
C36_ConnectionStatus ==
  /\ [](conn.type = "redis" => (conn.isConnected <=> conn.last = "connect"))
  /\ [][(conn.status = "connecting" /\ conn'.status = "ready")
          => (conn'.isConnected /\ conn'.last = "connect")]_vars
  /\ [][(conn.status \in {"connecting", "ready"} /\ conn'.status \in {"reconnecting", "end"})
          => (~conn'.isConnected /\ conn'.last = "close")]_vars
  /\ [][(conn'.status = "connecting" /\ conn.status \in {"wait", "end"})
          => (~conn.isConnected /\ ret'.op = "connect")]_vars
  /\ [][ret'.op = "connect"
          => (ret'.result.kind = "skipped" <=> (conn.type = "memory" \/ conn.isConnected))]_vars
  /\ [][(conn'.quitting /\ ~conn.quitting) => ret'.op = "disconnect"]_vars
  /\ [][ret'.op = "disconnect"
          => (ret'.result.kind = "quit" <=> (conn.type = "redis" /\ conn.isConnected))]_vars
  /\ [][ret'.op = "health"
          => ret'.result.val =
               IF conn.type = "redis" THEN conn.last = "connect" ELSE TRUE]_vars

\* The health endpoint reported a Redis store as not connected: the store
\* had been connected, the connection closed and the client is waiting to
\* reconnect
C36_Witness ==
  /\ ret.op = "health"
  /\ ret.result.val = FALSE
  /\ conn.type = "redis"
  /\ conn.last = "close"
  /\ conn.status = "reconnecting"
  /\ \E k \in Keys : redis[k].present

\* The health endpoint reported the in-memory storage as connected after
\* disconnect() had been called
C36_InMemoryWitness ==
  /\ ret.op = "health"
  /\ ret.result.val = TRUE
  /\ conn.type = "memory"

(***************************************************************************)
(* handleRequest for a POST on /mcp that carries an add_todo call.  It     *)
(* stores the request in currentRequest and awaits the transport, which    *)
(* reads the body and then runs the tool handler; the handler builds its   *)
(* context from currentRequest; when the tool has returned, the finally    *)
(* block sets currentRequest to null.                                      *)
(***************************************************************************)
\* req.headers["x-user-id"] of the stored request; reading the headers of
\* null raises a TypeError
ExtractUserId(request) == http[request].header

\* createToolContext(currentRequest!)
ContextRequest(p) == currentRequest

\* currentRequest = req; ... await transport.handleRequest(req, res)
HandleRequest(p, header) ==
  /\ Ready(p)
  /\ http[p].pc = "none"
  /\ currentRequest' = p
  /\ http' = [http EXCEPT ![p] = [pc |-> "handle", header |-> header]]
  /\ ret' = NoRet
  /\ UNCHANGED <<redis, now, ttlSeconds, keyPrefix, conn, proc, serverOf, lockVars>>

\* The body has been read: the add_todo handler runs.  It fails at once when
\* there is no stored request, and calls addTodo with the context otherwise.
ToolHandler(p, sessionId, input) ==
  /\ http[p].pc = "handle"
  /\ http' = [http EXCEPT ![p].pc = "tool"]
  /\ UNCHANGED currentRequest
  /\ IF ContextRequest(p) = 0
       THEN /\ Ready(p)
            /\ ret' = Returned(p, Call("add_todo", sessionId, None, input), Throw("TypeError"))
            /\ UNCHANGED <<redis, now, ttlSeconds, keyPrefix, conn, proc, serverOf, lockVars>>
       ELSE ToolLock(p, Call("addTodo", sessionId, ExtractUserId(ContextRequest(p)), input))

\* finally { currentRequest = null }
HandleRequestFinally(p) ==
  /\ http[p].pc = "tool"
  /\ Ready(p)
  /\ currentRequest' = 0
  /\ http' = [http EXCEPT ![p] = HttpIdle]
  /\ ret' = NoRet
  /\ UNCHANGED <<redis, now, ttlSeconds, keyPrefix, conn, proc, serverOf, lockVars>>

(***************************************************************************)
(* SpecHttp: the server handles concurrent POST requests, each with an     *)
(* add_todo call on the stored session s1 and with or without an          *)
(* X-User-ID header.                                                       *)
(***************************************************************************)
NextHttp ==
  \/ \E p \in Procs, header \in Callers : HandleRequest(p, header)
  \/ \E p \in Procs :
       /\ CanAdd("s1")
       /\ ToolHandler(p, "s1", [title |-> "task 1", description |-> "", tags |-> <<>>])
  \/ \E p \in Procs : ToolGet(p)
  \/ \E p \in Procs : AddBody(p, "t1")
  \/ \E p \in Procs : UpdateTtl(p)
  \/ \E p \in Procs : UpdateSetex(p)
  \/ \E p \in Procs : HandleRequestFinally(p)

SpecHttp == InitLive /\ [][NextHttp]_vars

\* C37: every tool handler runs with the identity of its own request: the
\* step in which the handler of request p runs starts the tool with the
\* X-User-ID header of p as the caller (absent when p has none), and does
\* not fail for want of a request.
C37_HandlerUsesOwnRequest ==
  [][\A p \in Procs :
       (http[p].pc = "handle" /\ http'[p].pc = "tool")
         => /\ proc'[p].op = "addTodo"
            /\ proc'[p].uid = http[p].header]_vars

TodoTools == {"addTodo", "updateTodo", "deleteTodo", "listTodos"}

\* The step ends a todo tool's call at its first read of the session or at
\* the read of the store's update, and that read finds no record
EndsOnAbsentSession ==
  /\ ret'.op \in TodoTools
  /\ proc[ret'.p].pc \in {"idle", "t_wait", "t_got"}
  /\ ~Live(ret'.sid)
  /\ ret'.result # ErrorPayload("TODO_NOT_FOUND")

\* C38: a todo tool whose session is absent, at the tool's first read or
\* at the read of the store's update after it has disappeared, returns the
\* encoded SESSION_NOT_FOUND error and does not raise.
C38_AbsentSessionEncoded ==
  [][EndsOnAbsentSession => ret'.result = ErrorPayload("SESSION_NOT_FOUND")]_vars

\* C39: while no addTodo, updateTodo or deleteTodo call is open, every id
\* for which a server's sessionLocks table holds a Mutex is the id of a
\* stored session.
C39_LocksOnlyForLiveSessions ==
  (\A p \in AllProcs : proc[p].op \notin LockedOps)
    => \A server \in Servers, id \in SessionIds :
         sessionLocks[server][id] # 0 => Live(id)

=============================================================================
